---- MODULE Spec2Model ----
(***************************************************************************)
(* A model of the KuCoin data collector.                                   *)
(*                                                                         *)
(* Spec      the production worker system (src/unnamed/part_002): scraper  *)
(*           workers fill downloadQueue, downloader workers drain          *)
(*           retryQueue and downloadQueue, failed items come back through  *)
(*           setTimeout callbacks.  One action per synchronous segment     *)
(*           between two awaits of a worker.                               *)
(* SpecLive  Spec with the fair scheduling of downloaders and timers.      *)
(* SpecScrape  Spec with the fair scheduling of the scraper workers.       *)
(* SpecPipe  the sequential pipeline of                                    *)
(*           src/worker_system_production_adapted.js: runWorker calls      *)
(*           processFileComplete on every file of the manifest.            *)
(* SpecVerify  steps 3 to 5 of processFileComplete (verifyChecksum,        *)
(*           validateZipFile, extractZipToCsv) on every pair of files      *)
(*           they may find on disk.                                        *)
(* SpecGh    the concurrent download pool of                               *)
(*           src/github_actions_worker.js: runWorker, downloadFile and     *)
(*           the promises between them.                                    *)
(* SpecXfer  the transfer of one response body to the local file, in the   *)
(*           three implementations.                                        *)
(* SpecDisc  the paged discovery of the files of a symbol, in the two      *)
(*           implementations.                                              *)
(* SpecPages the same, with empty truncated pages and with every         *)
(*           listing request settling.                                     *)
(* SpecBackoff  the retries of one item of the production worker system    *)
(*           against a clock: failure, setTimeout, retryQueue.push.        *)
(* SpecLife  the production worker system with its signal handler, its     *)
(*           checkpoint (saveState, loadState) and its next run.           *)
(* SpecResume  SpecLife with the fair scheduling of the workers.           *)
(* SpecAgain discovery run more than once against one unchanged listing.   *)
(* SpecFetch one listing request with its retries, in the two              *)
(*           implementations.                                              *)
(* SpecHealth  one downloader worker of the production worker system and   *)
(*           its count of consecutive failures.                            *)
(* SpecSlot  the size of activeDownloads in runWorker of                   *)
(*           src/github_actions_worker.js for long manifests.              *)
(* SpecClean one call of processFileComplete of                            *)
(*           src/worker_system_production_adapted.js, its catch block and  *)
(*           the files at zipPath and checksumPath.                        *)
(* SpecBatch the batch driver of src/unnamed/part_001 (and part_003,       *)
(*           batch_processor_production.js): one worker process per symbol *)
(*           of the slice.                                                 *)
(* SpecOrder the files of one symbol on their way through downloadQueue    *)
(*           and retryQueue of the production worker system.               *)
(***************************************************************************)
EXTENDS Integers, Sequences, FiniteSets, TLC

\* ------------------------------------------------------------------------
\* Bounds of the model
\* ------------------------------------------------------------------------

\* symbols in symbols.json
NumSymbols == 2

\* files in the manifest of the sequential pipeline
MaxManifest == 2

\* files the concurrent download pool discovers
MaxGhFiles == 2

\* chunks of a response body
MaxChunks == 2

\* steps of the clock of the backoff
MaxTicks == 16

\* runs of the process of the production worker system
MaxRuns == 2

\* downloads the server fails in the runs of the process
MaxLifeFailures == 1

\* the clock of the runs of discovery
MaxClock == 2

\* runs of discovery against one listing
MaxDiscoveries == 2

\* failures one downloader worker counts in state.stats.errors
MaxWorkerErrors == 12

\* files of a manifest longer than the download pool is wide
MaxManyFiles == 17

\* files of the manifest of the symbol whose order is followed
MaxOrderFiles == 3

\* downloads that fail while the order is followed
MaxOrderFailures == 2

\* symbols of the symbols.json the batch driver reads
MaxBatchSymbols == 3

\* bytes of a file found at the local path, and of file.size
MaxSize == 1

\* .zip keys the listing server holds for the symbol
MaxArchives == 3

\* keys the listing server puts in one page
MaxPageSize == 2

\* .zip keys the listing server holds for the first symbol; every further
\* symbol has one key less, down to an empty listing
MaxFiles == 1

\* work item objects created in one run
MaxItems == 2

\* downloads the server fails in one run
MaxFailures == 5

\* ------------------------------------------------------------------------
\* Production worker system (src/unnamed/part_002)
\* ------------------------------------------------------------------------

VARIABLES
    items,            \* the work item objects created so far: id -> fields
    downloadQueue,    \* const downloadQueue = []   (ids of work items)
    retryQueue,       \* const retryQueue = []
    timers,           \* work items held by a pending setTimeout callback
    scrapedSymbols,   \* state.scrapedSymbols
    failedSymbols,    \* state.failedSymbols
    downloadedFiles,  \* state.downloadedFiles
    failedDownloads,  \* state.failedDownloads: url -> {retries, lastError}
    isShuttingDown,   \* let isShuttingDown
    sPc, sSym,        \* scraper workers: position, symbol being scraped
    dPc, dFile, dErr, \* downloader workers: position, file, caught error
    failures          \* downloads the server has failed so far

poolVars == <<items, downloadQueue, retryQueue, timers, scrapedSymbols,
              failedSymbols, downloadedFiles, failedDownloads,
              isShuttingDown, sPc, sSym, dPc, dFile, dErr, failures>>

\* Sequential pipeline (src/worker_system_production_adapted.js)
VARIABLES
    server,           \* the remote host: what it serves for every file
    disk,             \* local storage: file -> zip, checksum and extracted CSV
    pPc,              \* position of runWorker / processFileComplete
    pFiles,           \* const files = await discoverFilesWithXML(symbol)
    pIdx,             \* index of the file the for loop is at
    pRetry,           \* retryCount of the running downloadFileWithRetry
    successCount,     \* let successCount
    errorCount,       \* let errorCount
    pCalls,           \* the files processFileComplete was called with
    pResult           \* outcome of the last processFileComplete

pipeVars == <<server, disk, pPc, pFiles, pIdx, pRetry, successCount,
              errorCount, pCalls, pResult>>

\* Concurrent download pool (src/github_actions_worker.js)
VARIABLES
    ghServer,         \* the remote host and the disk: what happens to every file
    ghPc,             \* position of runWorker
    currentIndex,     \* let currentIndex
    activeDownloads,  \* const activeDownloads = new Set(): files of the promises
    raced,            \* files whose promise was given to a Promise.race
    download,         \* file -> state of its downloadFile call
    currentDownloads, \* workerState.currentDownloads
    completedFiles,   \* workerState.completedFiles
    filesDownloaded,  \* workerState.filesDownloaded
    errors            \* workerState.errors

ghVars == <<ghServer, ghPc, currentIndex, activeDownloads, raced, download,
            currentDownloads, completedFiles, filesDownloaded, errors>>

\* One transfer of a file body to the local disk, in each of the three
\* implementations
VARIABLES
    xfImpl,           \* the implementation that transfers
    xfBody,           \* the chunks the server sends, in order
    xfPc,             \* position of the transfer
    received,         \* chunks received so far
    localFile,        \* the bytes of the local file, or NoLocalFile
    downloadedBytes,  \* let downloadedBytes
    expectedSize,     \* content-length or file.size (production), 0 if none
    reportedBytes,    \* the byte count a successful transfer reports
    fileSize,         \* file.size of the descriptor
    existing,         \* the file at the local path when the transfer began
    requests,         \* network requests issued
    unlinkPending     \* unlink(path, callback) is called and not done yet

xferVars == <<xfImpl, xfBody, xfPc, received, localFile, downloadedBytes,
              expectedSize, reportedBytes, fileSize, existing, requests,
              unlinkPending>>

\* Paged discovery of the files of one symbol, in both implementations
VARIABLES
    dsImpl,           \* the implementation that discovers
    listing,          \* the keys the server holds under the prefix, in order
    pageSize,         \* the keys the server puts in one page
    dsPc,             \* position of the discovery
    marker,           \* let marker
    dsFiles,          \* const files = []
    page,             \* let page
    retryCount,       \* retryCount of scrapeSymbolFiles
    nextMarker,       \* result.NextMarker of the page received last
    isTruncated,      \* const isTruncated of the page received last
    keyCount          \* the number of keys of the page received last

discVars == <<dsImpl, listing, pageSize, dsPc, marker, dsFiles, page, retryCount,
              nextMarker, isTruncated, keyCount>>

\* The retries of one item of the production worker system, with a clock
VARIABLES
    boPc,             \* where the item is
    boRetries,        \* file.retries
    boNow,            \* the time, in ms
    boSetAt,          \* the time of the last setTimeout
    boDue,            \* the time the timer of the last setTimeout is due
    boQueuedAt        \* the time of the last retryQueue.push(file)

backoffVars == <<boPc, boRetries, boNow, boSetAt, boDue, boQueuedAt>>

\* The life of the process of the production worker system: signal
\* handler, checkpoint, exit and the next run
VARIABLES
    procPc,           \* "up" or "exited"
    sigPc,            \* position of the SIGINT / SIGTERM handler
    saving,           \* const data of a saveState whose writeFile is pending
    checkpoint,       \* the content of STATE_FILE
    loaded,           \* what loadState has read at the start of the run
    atSignal,         \* the transfers in flight when the signal arrived
    runs              \* the runs of the process so far

lifeVars == <<procPc, sigPc, saving, checkpoint, loaded, atSignal, runs>>

\* Discovery run again against one listing (discoverFilesWithXML of
\* worker_system_production_adapted.js, discoverFiles of
\* github_actions_worker.js)
VARIABLES
    rdImpl,           \* which discovery runs
    contents,         \* the listing of the server: key and tags of every entry
    now,              \* the clock that new Date() reads
    manifests         \* the manifests discovery has returned so far

againVars == <<rdImpl, contents, now, manifests>>

\* One listing request and its retries (fetchXML of
\* worker_system_production_adapted.js; fetchXml and the catch block of
\* scrapeSymbolFiles of part_002)
VARIABLES
    fxImpl,           \* the implementation that fetches
    fxPc,             \* "request", "waiting", "resolved" or "rejected"
    fxRetryCount,     \* retryCount
    fxErrors,         \* the failures of the attempts so far
    fxDelays          \* the delays of the setTimeout calls so far

fetchVars == <<fxImpl, fxPc, fxRetryCount, fxErrors, fxDelays>>

\* The consecutive failures of one downloader worker of part_002
VARIABLES
    hwPc,                 \* "loop": at the loop head, "wait": in the delay of the pass
    consecutiveFailures,  \* let consecutiveFailures
    statsErrors,          \* state.stats.errors
    hwDelay,              \* the delay the worker waits before the next dequeue
    hwCritical            \* a CRITICAL line was logged in this pass of the loop

healthVars == <<hwPc, consecutiveFailures, statsErrors, hwDelay, hwCritical>>

\* The size of activeDownloads in runWorker of github_actions_worker.js,
\* for manifests longer than maxConcurrentDownloads
VARIABLES
    slPc,             \* position of runWorker
    slFiles,          \* files.length
    slIndex,          \* let currentIndex
    slPending,        \* promises of activeDownloads that are pending
    slRejected        \* promises of activeDownloads that are rejected

slotVars == <<slPc, slFiles, slIndex, slPending, slRejected>>

\* The order of the files of one symbol through the queues of part_002
VARIABLES
    oqFiles,          \* files.length of the manifest of the symbol
    oqScraped,        \* scrapers that have pushed the manifest
    oqDownload,       \* downloadQueue: <<scraper, index in the manifest>>
    oqRetry,          \* retryQueue
    oqTimers,         \* items held by a pending setTimeout callback
    oqHeld,           \* the item every downloader works on
    oqStarts,         \* the items the downloaders have taken, in order,
                      \* each with the queue it came from
    oqFailed          \* downloads that have failed so far

orderVars == <<oqFiles, oqScraped, oqDownload, oqRetry, oqTimers, oqHeld,
               oqStarts, oqFailed>>

\* One call of processFileComplete of
\* worker_system_production_adapted.js and the files at its two paths
VARIABLES
    cuPc,             \* position of processFileComplete
    zipExists,        \* a file is at zipPath
    checksumExists,   \* a file is at checksumPath
    unlinkInFlight,   \* paths with an unlink(filePath, callback) under way
    failedAt,         \* the step that has thrown, or "none"
    cuRetryCount      \* retryCount of the downloadFileWithRetry under way

cleanVars == <<cuPc, zipExists, checksumExists, unlinkInFlight, failedAt,
               cuRetryCount>>

\* The batch driver (main and processSymbol of part_001, the same in
\* part_003 and batch_processor_production.js)
VARIABLES
    batchSymbols,     \* const batchSymbols
    bPc,              \* position of main: "loop", "await" or "done"
    bIndex,           \* let i, counted from 1
    bWorker,          \* the worker process of every symbol of the batch
    bTimers,          \* symbols whose setTimeout callback is pending
    bSpawned          \* the symbols workers were spawned for, in order

batchVars == <<batchSymbols, bPc, bIndex, bWorker, bTimers, bSpawned>>

\* The variables of the subsystems other than the one that takes a step
notPool == <<pipeVars, ghVars, xferVars, discVars, backoffVars, lifeVars, againVars, fetchVars, healthVars, slotVars, orderVars, cleanVars, batchVars>>
notPipe == <<poolVars, ghVars, xferVars, discVars, backoffVars, lifeVars, againVars, fetchVars, healthVars, slotVars, orderVars, cleanVars, batchVars>>
notGh == <<poolVars, pipeVars, xferVars, discVars, backoffVars, lifeVars, againVars, fetchVars, healthVars, slotVars, orderVars, cleanVars, batchVars>>
notXfer == <<poolVars, pipeVars, ghVars, discVars, backoffVars, lifeVars, againVars, fetchVars, healthVars, slotVars, orderVars, cleanVars, batchVars>>
notDisc == <<poolVars, pipeVars, ghVars, xferVars, backoffVars, lifeVars, againVars, fetchVars, healthVars, slotVars, orderVars, cleanVars, batchVars>>
notBackoff == <<poolVars, pipeVars, ghVars, xferVars, discVars, lifeVars, againVars, fetchVars, healthVars, slotVars, orderVars, cleanVars, batchVars>>
notLife == <<poolVars, pipeVars, ghVars, xferVars, discVars, backoffVars, againVars, fetchVars, healthVars, slotVars, orderVars, cleanVars, batchVars>>
notPoolLife == <<pipeVars, ghVars, xferVars, discVars, backoffVars, againVars, fetchVars, healthVars, slotVars, orderVars, cleanVars, batchVars>>
notAgain == <<poolVars, pipeVars, ghVars, xferVars, discVars, backoffVars, lifeVars, fetchVars, healthVars, slotVars, orderVars, cleanVars, batchVars>>
notFetch == <<poolVars, pipeVars, ghVars, xferVars, discVars, backoffVars, lifeVars, againVars, healthVars, slotVars, orderVars, cleanVars, batchVars>>
notHealth == <<poolVars, pipeVars, ghVars, xferVars, discVars, backoffVars, lifeVars, againVars, fetchVars, slotVars, orderVars, cleanVars, batchVars>>
notSlot == <<poolVars, pipeVars, ghVars, xferVars, discVars, backoffVars, lifeVars, againVars, fetchVars, healthVars, orderVars, cleanVars, batchVars>>
notOrder == <<poolVars, pipeVars, ghVars, xferVars, discVars, backoffVars, lifeVars, againVars, fetchVars, healthVars, slotVars, cleanVars, batchVars>>
notClean == <<poolVars, pipeVars, ghVars, xferVars, discVars, backoffVars, lifeVars, againVars, fetchVars, healthVars, slotVars, orderVars, batchVars>>
notBatch == <<poolVars, pipeVars, ghVars, xferVars, discVars, backoffVars, lifeVars, againVars, fetchVars, healthVars, slotVars, orderVars, cleanVars>>

\* parseInt(process.argv[3]) || 100 of the batch driver
defaultCount == 100

\* WORKER_CONFIG
scrapers == 2
downloaders == 2
maxRetries == 5

Scrapers == 1..scrapers
Downloaders == 1..downloaders

\* symbols.json, in file order
allSymbols == [i \in 1..NumSymbols |-> i]

\* What scrapeSymbolFiles returns for a symbol: the file names of its
\* listing, in server order (the pagination itself is modelled below).
ListingOf(symbol) == [i \in 1..(MaxFiles + 1 - symbol) |-> i]

\* The reasons downloadFile throws with
DownloadErrors == {"HTTP", "Timeout"}

NoFile == 0
NoSymbol == 0
NoError == "none"

\* `${file.symbol}/${file.filename}`, the key of state.downloadedFiles
FileKey(id) == <<items[id].symbol, items[id].filename>>

\* file.url, the key of state.failedDownloads
FileUrl(id) == <<"url", items[id].symbol, items[id].filename>>

\* The object literal pushed by the scraper
NewItem(symbol, filename) ==
    [symbol |-> symbol, filename |-> filename, retries |-> 0, attempts |-> 0]

RECURSIVE SeqFilter(_, _)
SeqFilter(s, keep) ==
    IF s = <<>> THEN <<>>
    ELSE IF Head(s) \in keep THEN <<Head(s)>> \o SeqFilter(Tail(s), keep)
    ELSE SeqFilter(Tail(s), keep)

\* allSymbols.filter(s => !state.scrapedSymbols.has(s))
Unprocessed ==
    SeqFilter(allSymbols, (1..NumSymbols) \ scrapedSymbols)

PoolInit ==
    /\ items = <<>>
    /\ downloadQueue = <<>>
    /\ retryQueue = <<>>
    /\ timers = {}
    /\ scrapedSymbols = {}
    /\ failedSymbols = {}
    /\ downloadedFiles = {}
    /\ failedDownloads = <<>>
    /\ isShuttingDown = FALSE
    /\ sPc = [w \in Scrapers |-> "read"]
    /\ sSym = [w \in Scrapers |-> NoSymbol]
    /\ dPc = [w \in Downloaders |-> "idle"]
    /\ dFile = [w \in Downloaders |-> NoFile]
    /\ dErr = [w \in Downloaders |-> NoError]
    /\ failures = 0

\* --- scraperWorker -------------------------------------------------------
\* A scraper is at one of these awaits:
\*   "read"      readFile(SYMBOLS_FILE) at the head of the loop
\*   "scraping"  the "Processing" log line and scrapeSymbolFiles(symbol)
\*   "logging"   the log line that follows the scrape ("files queued" or
\*               "no files found")
\*   "sleep"     a delay that leads back to the loop head (the 5 s wait,
\*               scraperDelay, or the log line and delay of the catch block)

\* The loop head a scraper reaches when an awaited delay ends
ScraperLoopHead == IF isShuttingDown THEN "stopped" ELSE "read"

\* readFile(SYMBOLS_FILE) resolves: pick the first unprocessed symbol, or
\* wait 5 s when there is none.
ScraperPick(w) ==
    /\ sPc[w] = "read"
    /\ IF Unprocessed = <<>>
       THEN /\ sPc' = [sPc EXCEPT ![w] = "sleep"]
            /\ UNCHANGED sSym
       ELSE /\ sPc' = [sPc EXCEPT ![w] = "scraping"]
            /\ sSym' = [sSym EXCEPT ![w] = Unprocessed[1]]
    /\ UNCHANGED <<items, downloadQueue, retryQueue, timers, scrapedSymbols,
                   failedSymbols, downloadedFiles, failedDownloads,
                   isShuttingDown, dPc, dFile, dErr, failures>>
    /\ UNCHANGED notPool

\* scrapeSymbolFiles returns the files of the symbol
ScrapeReturns(w) ==
    /\ sPc[w] = "scraping"
    /\ sPc' = [sPc EXCEPT ![w] = "logging"]
    /\ failedSymbols' = IF Len(ListingOf(sSym[w])) > 0
                        THEN failedSymbols
                        ELSE failedSymbols \cup {sSym[w]}
    /\ UNCHANGED <<items, downloadQueue, retryQueue, timers, scrapedSymbols,
                   downloadedFiles, failedDownloads, isShuttingDown, sSym,
                   dPc, dFile, dErr, failures>>
    /\ UNCHANGED notPool

\* scrapeSymbolFiles throws (its retries are used up): the catch block
ScrapeThrows(w) ==
    /\ sPc[w] = "scraping"
    /\ sPc' = [sPc EXCEPT ![w] = "sleep"]
    /\ sSym' = [sSym EXCEPT ![w] = NoSymbol]
    /\ UNCHANGED <<items, downloadQueue, retryQueue, timers, scrapedSymbols,
                   failedSymbols, downloadedFiles, failedDownloads,
                   isShuttingDown, dPc, dFile, dErr, failures>>
    /\ UNCHANGED notPool

\* files.forEach(file => downloadQueue.push({...})), in listing order
PushFiles(symbol) ==
    LET files == ListingOf(symbol)
        base == Len(items)
    IN  /\ items' = items \o [i \in 1..Len(files) |-> NewItem(symbol, files[i])]
        /\ downloadQueue' = downloadQueue \o [i \in 1..Len(files) |-> base + i]

\* The log line after the scrape is written: the files (if any) are pushed
\* and the symbol is marked as scraped.
ScraperRecord(w) ==
    /\ sPc[w] = "logging"
    /\ Len(items) + Len(ListingOf(sSym[w])) <= MaxItems
    /\ PushFiles(sSym[w])
    /\ scrapedSymbols' = scrapedSymbols \cup {sSym[w]}
    /\ sPc' = [sPc EXCEPT ![w] = "sleep"]
    /\ sSym' = [sSym EXCEPT ![w] = NoSymbol]
    /\ UNCHANGED <<retryQueue, timers, failedSymbols, downloadedFiles,
                   failedDownloads, isShuttingDown, dPc, dFile, dErr, failures>>
    /\ UNCHANGED notPool

\* The awaited delay ends: back to the loop head
ScraperWakes(w) ==
    /\ sPc[w] = "sleep"
    /\ sPc' = [sPc EXCEPT ![w] = ScraperLoopHead]
    /\ UNCHANGED <<items, downloadQueue, retryQueue, timers, scrapedSymbols,
                   failedSymbols, downloadedFiles, failedDownloads,
                   isShuttingDown, sSym, dPc, dFile, dErr, failures>>
    /\ UNCHANGED notPool

\* --- downloaderWorker ----------------------------------------------------
\* A downloader is at one of these awaits:
\*   "idle"         a delay that leads back to the loop head (the 1 s poll
\*                  or downloaderDelay)
\*   "downloading"  the "Downloading" log line and downloadFile(file)
\*   "failed"       the log lines of the inner catch block
\* The log lines touch no shared state, so the awaits of one block are one
\* position.

\* A worker holds its file from the dequeue to the end of the iteration
Holding(w) == dPc[w] \in {"downloading", "failed"}

\* What queue.shift() leaves in the queue
AfterPeek(q) == q
AfterShift(q) == Tail(q)

NextQueueDownloadFirst(retryQ, downloadQ) ==
    IF Len(downloadQ) > 0 THEN "downloadQueue"
    ELSE IF Len(retryQ) > 0 THEN "retryQueue"
    ELSE "none"

\* if (retryQueue.length > 0) ... else if (downloadQueue.length > 0) ...:
\* the queue the next file is taken from
NextQueue(retryQ, downloadQ) ==
    IF Len(retryQ) > 0 THEN "retryQueue"
    ELSE IF Len(downloadQ) > 0 THEN "downloadQueue"
    ELSE "none"

\* The loop head: stop on shutdown, else take the head of retryQueue, else
\* the head of downloadQueue (else sleep 1 s and come back); then call
\* downloadFile(file).
Dequeue(w) ==
    /\ dPc[w] = "idle"
    /\ IF isShuttingDown
       THEN /\ dPc' = [dPc EXCEPT ![w] = "stopped"]
            /\ UNCHANGED <<retryQueue, downloadQueue, dFile, items>>
       ELSE IF NextQueue(retryQueue, downloadQueue) = "retryQueue"
       THEN /\ dFile' = [dFile EXCEPT ![w] = Head(retryQueue)]
            /\ retryQueue' = AfterShift(retryQueue)
            /\ items' = [items EXCEPT ![Head(retryQueue)].attempts = @ + 1]
            /\ dPc' = [dPc EXCEPT ![w] = "downloading"]
            /\ UNCHANGED downloadQueue
       ELSE /\ NextQueue(retryQueue, downloadQueue) = "downloadQueue"
            /\ dFile' = [dFile EXCEPT ![w] = Head(downloadQueue)]
            /\ downloadQueue' = AfterShift(downloadQueue)
            /\ items' = [items EXCEPT ![Head(downloadQueue)].attempts = @ + 1]
            /\ dPc' = [dPc EXCEPT ![w] = "downloading"]
            /\ UNCHANGED retryQueue
    /\ UNCHANGED <<timers, scrapedSymbols, failedSymbols, downloadedFiles,
                   failedDownloads, isShuttingDown, sPc, sSym, dErr, failures>>
    /\ UNCHANGED notPool

\* state.failedDownloads.delete(url)
MapDeleteNothing(map, key) == map
MapDelete(map, key) == [k \in (DOMAIN map) \ {key} |-> map[k]]

\* state.failedDownloads.set(url, value)
MapSet(map, key, value) ==
    [k \in (DOMAIN map) \cup {key} |-> IF k = key THEN value ELSE map[k]]

\* downloadFile returns true; the iteration ends with downloaderDelay
DownloadSucceeds(w) ==
    /\ dPc[w] = "downloading"
    /\ downloadedFiles' = downloadedFiles \cup {FileKey(dFile[w])}
    /\ failedDownloads' = MapDelete(failedDownloads, FileUrl(dFile[w]))
    /\ dPc' = [dPc EXCEPT ![w] = "idle"]
    /\ dFile' = [dFile EXCEPT ![w] = NoFile]
    /\ UNCHANGED <<items, downloadQueue, retryQueue, timers, scrapedSymbols,
                   failedSymbols, isShuttingDown, sPc, sSym, dErr, failures>>
    /\ UNCHANGED notPool

\* downloadFile throws: file.retries++ and the "attempt failed" log line
DownloadFails(w, error) ==
    /\ dPc[w] = "downloading"
    /\ failures < MaxFailures
    /\ failures' = failures + 1
    /\ items' = [items EXCEPT ![dFile[w]].retries = @ + 1]
    /\ dErr' = [dErr EXCEPT ![w] = error]
    /\ dPc' = [dPc EXCEPT ![w] = "failed"]
    /\ UNCHANGED <<downloadQueue, retryQueue, timers, scrapedSymbols,
                   failedSymbols, downloadedFiles, failedDownloads,
                   isShuttingDown, sPc, sSym, dFile>>
    /\ UNCHANGED notPool

\* if (file.retries < WORKER_CONFIG.maxRetries)
RetriesLeftOffByOne(retries) == retries <= maxRetries
RetriesLeft(retries) == retries < maxRetries

AfterSetTimeoutNothing(pending, id) == pending

\* The pending callbacks after setTimeout(() => { retryQueue.push(file) })
AfterSetTimeout(pending, id) == pending \cup {id}

\* The log lines of a failure with retries left are written:
\* setTimeout(() => retryQueue.push(file), backoffDelay)
ScheduleRetry(w) ==
    /\ dPc[w] = "failed"
    /\ RetriesLeft(items[dFile[w]].retries)
    /\ timers' = AfterSetTimeout(timers, dFile[w])
    /\ dPc' = [dPc EXCEPT ![w] = "idle"]
    /\ dFile' = [dFile EXCEPT ![w] = NoFile]
    /\ dErr' = [dErr EXCEPT ![w] = NoError]
    /\ UNCHANGED <<items, downloadQueue, retryQueue, scrapedSymbols,
                   failedSymbols, downloadedFiles, failedDownloads,
                   isShuttingDown, sPc, sSym, failures>>
    /\ UNCHANGED notPool

\* The value stored in state.failedDownloads
FailureRecord(id, error) ==
    [retries |-> items[id].retries, lastError |-> error]

\* The log lines of a failure without retries left are written:
\* state.failedDownloads.set(file.url, {...})
RecordFailure(w) ==
    /\ dPc[w] = "failed"
    /\ ~RetriesLeft(items[dFile[w]].retries)
    /\ failedDownloads' = MapSet(failedDownloads, FileUrl(dFile[w]),
                                 FailureRecord(dFile[w], dErr[w]))
    /\ dPc' = [dPc EXCEPT ![w] = "idle"]
    /\ dFile' = [dFile EXCEPT ![w] = NoFile]
    /\ dErr' = [dErr EXCEPT ![w] = NoError]
    /\ UNCHANGED <<items, downloadQueue, retryQueue, timers, scrapedSymbols,
                   failedSymbols, downloadedFiles, isShuttingDown, sPc, sSym,
                   failures>>
    /\ UNCHANGED notPool

AfterPushNothing(q, id) == q

\* What queue.push(file) makes of the queue
AfterPush(q, id) == Append(q, id)

\* A backoff timer fires: retryQueue.push(file)
TimerFires(id) ==
    /\ id \in timers
    /\ timers' = timers \ {id}
    /\ retryQueue' = AfterPush(retryQueue, id)
    /\ UNCHANGED <<items, downloadQueue, scrapedSymbols, failedSymbols,
                   downloadedFiles, failedDownloads, isShuttingDown, sPc,
                   sSym, dPc, dFile, dErr, failures>>
    /\ UNCHANGED notPool

\* SIGINT or SIGTERM: isShuttingDown = true
Signal ==
    /\ ~isShuttingDown
    /\ isShuttingDown' = TRUE
    /\ UNCHANGED <<items, downloadQueue, retryQueue, timers, scrapedSymbols,
                   failedSymbols, downloadedFiles, failedDownloads, sPc,
                   sSym, dPc, dFile, dErr, failures>>
    /\ UNCHANGED notPool

PoolNext ==
    \/ \E w \in Scrapers :
          \/ ScraperPick(w)
          \/ ScrapeReturns(w)
          \/ ScrapeThrows(w)
          \/ ScraperRecord(w)
          \/ ScraperWakes(w)
    \/ \E w \in Downloaders :
          \/ Dequeue(w)
          \/ DownloadSucceeds(w)
          \/ \E error \in DownloadErrors : DownloadFails(w, error)
          \/ ScheduleRetry(w)
          \/ RecordFailure(w)
    \/ \E id \in timers : TimerFires(id)
    \/ Signal

\* The pool at rest, for the specifications of the other subsystems
PoolIdle ==
    /\ items = <<>>
    /\ downloadQueue = <<>>
    /\ retryQueue = <<>>
    /\ timers = {}
    /\ scrapedSymbols = {}
    /\ failedSymbols = {}
    /\ downloadedFiles = {}
    /\ failedDownloads = <<>>
    /\ isShuttingDown = FALSE
    /\ sPc = [w \in Scrapers |-> "stopped"]
    /\ sSym = [w \in Scrapers |-> NoSymbol]
    /\ dPc = [w \in Downloaders |-> "stopped"]
    /\ dFile = [w \in Downloaders |-> NoFile]
    /\ dErr = [w \in Downloaders |-> NoError]
    /\ failures = 0

\* ------------------------------------------------------------------------
\* File contents
\* ------------------------------------------------------------------------
\* The content of a file is a record: an archive with its entries, a text
\* with its whitespace-separated tokens, bytes that are no archive, or
\* nothing at all.

Content(kind, entries, tokens) ==
    [kind |-> kind, entries |-> entries, tokens |-> tokens]

Absent == Content("absent", <<>>, <<>>)      \* no file at the path
EmptyFile == Content("empty", <<>>, <<>>)    \* a file of 0 bytes
Garbage == Content("garbage", <<>>, <<>>)    \* bytes that are no archive
Zip(entries) == Content("zip", entries, <<>>)
Text(tokens) == IF tokens = <<>> THEN EmptyFile ELSE Content("text", <<>>, tokens)

\* An archive entry; the text of a CSV is its lines, a line is its cells,
\* and a line without cells is blank.
Entry(name, lines) == [name |-> name, lines |-> lines]

HeaderRow == <<"trade_id", "trade_time", "price", "size", "side">>
UpperHeaderRow == <<"SIDE", "SIZE", "PRICE", "TRADE_TIME", "TRADE_ID">>
WideHeaderRow == <<"x", "side", "SIZE", "price", "trade_time", "x", "trade_id">>
ShortHeaderRow == <<"trade_id", "trade_time", "price", "size">>
DataRow == <<"1", "2", "3", "4", "buy">>
BlankRow == <<>>

GoodZip == Zip(<<Entry("trades.csv", <<HeaderRow, DataRow, DataRow>>)>>)
UpperZip == Zip(<<Entry("readme.txt", <<DataRow>>),
                  Entry("trades.csv", <<UpperHeaderRow, BlankRow, DataRow>>)>>)
HeaderOnlyZip == Zip(<<Entry("trades.csv", <<HeaderRow, BlankRow>>)>>)
ShortHeaderZip == Zip(<<Entry("trades.csv", <<ShortHeaderRow, DataRow>>)>>)
NoCsvZip == Zip(<<Entry("readme.txt", <<DataRow>>)>>)
EmptyCsvZip == Zip(<<Entry("trades.csv", <<>>)>>)
NoEntryZip == Zip(<<>>)
WideZip == Zip(<<Entry("trades.csv", <<BlankRow, WideHeaderRow, DataRow, BlankRow,
                                       DataRow, DataRow>>)>>)

\* The archive bytes of the model, in a fixed order
ZipContents ==
    <<EmptyFile, Garbage, GoodZip, UpperZip, HeaderOnlyZip, ShortHeaderZip,
      NoCsvZip, EmptyCsvZip, NoEntryZip, WideZip>>

\* md5.digest('hex'): the digest of a content is named by the place of the
\* content in ZipContents, so different contents have different digests.
\* A token [word |-> "md5", of |-> i, upper |-> u] is the hex digest of
\* content i, written in upper case when u holds.
DigestOf(content) == CHOOSE i \in DOMAIN ZipContents : ZipContents[i] = content

Md5Hex(content) == [word |-> "md5", of |-> DigestOf(content), upper |-> FALSE]

NameToken == [word |-> "name", of |-> 0, upper |-> FALSE]

\* String.prototype.toLowerCase on a token, on the tokens of a text and on
\* a CSV cell
LowerToken(token) == [token EXCEPT !.upper = FALSE]

LowerTokens(tokens) == [i \in DOMAIN tokens |-> LowerToken(tokens[i])]

LowerCell(cell) ==
    CASE cell = "TRADE_ID" -> "trade_id"
      [] cell = "TRADE_TIME" -> "trade_time"
      [] cell = "PRICE" -> "price"
      [] cell = "SIZE" -> "size"
      [] cell = "SIDE" -> "side"
      [] OTHER -> cell

\* ------------------------------------------------------------------------
\* Sequential pipeline (src/worker_system_production_adapted.js)
\* ------------------------------------------------------------------------

\* WORKER_CONFIG.maxRetries of the pipeline
pipeMaxRetries == 5

\* fs.readFile(path, 'utf8') of a sidecar file, then .trim(): its tokens
TrimmedTokens(content) == content.tokens

\* verifyChecksum(zipPath, checksumPath).  checksumContent.trim().split()
\* has no separator, so it yields the whole trimmed text as its only
\* element; element [0] is lower-cased and compared with the digest.
verifyChecksumAlwaysValid(zipData, sumData) == [valid |-> TRUE, error |-> NoError]
verifyChecksum(zipData, sumData) ==
    IF zipData = Absent \/ sumData = Absent
    THEN [valid |-> FALSE, error |-> "ENOENT"]
    ELSE LET expectedChecksum == LowerTokens(TrimmedTokens(sumData))
             actualChecksum == <<LowerToken(Md5Hex(zipData))>>
             isValid == expectedChecksum = actualChecksum
         IN  [valid |-> isValid,
              error |-> IF isValid THEN NoError ELSE "Checksum mismatch"]

\* zipEntries.find(entry => entry.entryName.endsWith('.csv'))
RECURSIVE FindCsv(_)
FindCsv(entries) ==
    IF entries = <<>> THEN <<>>
    ELSE IF Head(entries).name = "trades.csv" THEN <<Head(entries)>>
    ELSE FindCsv(Tail(entries))

NonBlankKeepAll(lines) == lines

\* csvData.split('\n').filter(line => line.trim().length > 0)
RECURSIVE NonBlank(_)
NonBlank(lines) ==
    IF lines = <<>> THEN <<>>
    ELSE IF Head(lines) # BlankRow THEN <<Head(lines)>> \o NonBlank(Tail(lines))
    ELSE NonBlank(Tail(lines))

expectedHeaders == {"trade_id", "trade_time", "price", "size", "side"}

\* expectedHeaders.every(h => header.toLowerCase().includes(h))
HasRequiredHeaders(header) ==
    \A h \in expectedHeaders : \E i \in DOMAIN header : LowerCell(header[i]) = h

ZipInvalid(error, checks) ==
    [valid |-> FALSE, error |-> error, dataRows |-> 0, checks |-> checks]

\* validateZipFile(zipPath); checks are the checks it has run: the archive
\* is opened and searched for a CSV ("archive"), then the lines and the
\* header of the CSV are checked ("schema").
validateZipFile(zipData) ==
    IF zipData.kind # "zip"
    THEN ZipInvalid("ZIP validation failed", <<"archive">>)
    ELSE IF Len(zipData.entries) = 0
    THEN ZipInvalid("ZIP file is empty", <<"archive">>)
    ELSE IF FindCsv(zipData.entries) = <<>>
    THEN ZipInvalid("No CSV file found in ZIP", <<"archive">>)
    ELSE LET csvData == FindCsv(zipData.entries)[1].lines
             lines == NonBlank(csvData)
         IN  IF Len(csvData) = 0
             THEN ZipInvalid("CSV content is empty", <<"archive">>)
             ELSE IF Len(lines) < 2
             THEN ZipInvalid("CSV has insufficient data", <<"archive", "schema">>)
             ELSE IF ~HasRequiredHeaders(lines[1])
             THEN ZipInvalid("CSV missing required headers", <<"archive", "schema">>)
             ELSE [valid |-> TRUE, error |-> NoError,
                   dataRows |-> Len(lines) - 1,
                   checks |-> <<"archive", "schema">>]

\* extractZipToCsv(zipPath, extractDir): the CSV entry written to extractDir
extractZipToCsv(zipData) ==
    IF zipData.kind # "zip" \/ FindCsv(zipData.entries) = <<>>
    THEN [success |-> FALSE, csv |-> Absent]
    ELSE [success |-> TRUE, csv |-> Content("csv", FindCsv(zipData.entries), <<>>)]

Outcome(success, error, checks, dataRows, csv) ==
    [success |-> success, error |-> error, checks |-> checks,
     dataRows |-> dataRows, csv |-> csv]

\* Steps 3 to 5 of processFileComplete on the two downloaded files: verify
\* the checksum, validate the archive, extract the CSV; the first failure
\* throws.
ProcessChecksNoShortCircuit(zipData, sumData) ==
    LET c == verifyChecksum(zipData, sumData)
        z == validateZipFile(zipData)
    IN  IF ~c.valid \/ ~z.valid
        THEN Outcome(FALSE,
                     IF ~c.valid THEN "Checksum verification failed"
                     ELSE "ZIP validation failed",
                     <<"checksum">> \o z.checks, 0, Absent)
        ELSE Outcome(TRUE, NoError, <<"checksum">> \o z.checks \o <<"extract">>,
                     z.dataRows, extractZipToCsv(zipData).csv)
ProcessChecks(zipData, sumData) ==
    LET c == verifyChecksum(zipData, sumData)
    IN  IF ~c.valid
        THEN Outcome(FALSE, "Checksum verification failed", <<"checksum">>, 0, Absent)
        ELSE LET z == validateZipFile(zipData)
             IN  IF ~z.valid
                 THEN Outcome(FALSE, "ZIP validation failed",
                              <<"checksum">> \o z.checks, 0, Absent)
                 ELSE LET e == extractZipToCsv(zipData)
                      IN  IF ~e.success
                          THEN Outcome(FALSE, "CSV extraction failed",
                                       <<"checksum">> \o z.checks \o <<"extract">>,
                                       0, Absent)
                          ELSE Outcome(TRUE, NoError,
                                       <<"checksum">> \o z.checks \o <<"extract">>,
                                       z.dataRows, e.csv)

NoOutcome == Outcome(FALSE, NoError, <<>>, 0, Absent)

\* What the remote host does for one file of the manifest: the status of
\* the archive and of its sidecar, whether requests for it may break
\* (connection errors, timeouts), and the two bodies.
Served(zipStatus, sumStatus, flaky, zip, sum) ==
    [zipStatus |-> zipStatus, sumStatus |-> sumStatus, flaky |-> flaky,
     zip |-> zip, sum |-> sum]

UpperToken(token) == [token EXCEPT !.upper = TRUE]

ServerKinds ==
    { Served(200, 200, FALSE, GoodZip, Text(<<Md5Hex(GoodZip)>>)),
      Served(200, 200, FALSE, UpperZip, Text(<<UpperToken(Md5Hex(UpperZip))>>)),
      Served(200, 200, FALSE, GoodZip, Text(<<Md5Hex(GoodZip), NameToken>>)),
      Served(200, 200, FALSE, GoodZip, Text(<<Md5Hex(UpperZip)>>)),
      Served(200, 200, FALSE, HeaderOnlyZip, Text(<<Md5Hex(HeaderOnlyZip)>>)),
      Served(404, 404, FALSE, Absent, Absent),
      Served(200, 404, FALSE, GoodZip, Absent),
      Served(200, 200, TRUE, GoodZip, Text(<<Md5Hex(GoodZip)>>)) }

ServerSet == UNION {[1..n -> ServerKinds] : n \in 0..MaxManifest}

NoFiles(srv) == [f \in DOMAIN srv |-> [zip |-> Absent, sum |-> Absent, csv |-> Absent]]

\* The record kept of the last processFileComplete: the file, the two
\* files on disk when the checks ran, and the outcome
Processed(file, zipData, sumData, outcome) ==
    [file |-> file, zip |-> zipData, sum |-> sumData, outcome |-> outcome]

NothingProcessed == Processed(NoFile, Absent, Absent, NoOutcome)

PipeInit ==
    /\ server \in ServerSet
    /\ disk = NoFiles(server)
    /\ pPc = "discover"
    /\ pFiles = <<>>
    /\ pIdx = 0
    /\ pRetry = 0
    /\ successCount = 0
    /\ errorCount = 0
    /\ pCalls = <<>>
    /\ pResult = NothingProcessed

\* The pipeline at rest, for the specifications of the other subsystems
PipeIdle ==
    /\ server = <<>>
    /\ disk = <<>>
    /\ pPc = "done"
    /\ pFiles = <<>>
    /\ pIdx = 0
    /\ pRetry = 0
    /\ successCount = 0
    /\ errorCount = 0
    /\ pCalls = <<>>
    /\ pResult = NothingProcessed

\* What downloadFileWithRetry leaves in the file it has opened with
\* createWriteStream when the response ends: the 'data' handler only adds
\* chunk.length to downloadedBytes and nothing is written to fileStream, so
\* the file is created and stays empty whatever the body is.
DownloadedTo(body) == EmptyFile

\* processFileComplete(files[i]) is called: step 1, the archive download
CallProcessFile(files, i) ==
    /\ pIdx' = i
    /\ pCalls' = Append(pCalls, files[i])
    /\ pPc' = "zip"
    /\ pRetry' = 0

\* The position of runWorker after the try/catch around one file
AbortRun(i) == "failed"
AfterFile(i) == IF i < Len(pFiles) THEN "next" ELSE "done"

\* The for loop goes on after files[pIdx]: the next call, or the end
Continue(next) ==
    IF next = "next"
    THEN CallProcessFile(pFiles, pIdx + 1)
    ELSE /\ pPc' = next
         /\ UNCHANGED <<pIdx, pCalls, pRetry>>

\* processFileComplete throws: its catch block unlinks the archive and the
\* sidecar, and the catch block of the loop counts the error.
FileError(zipData, sumData, outcome) ==
    /\ disk' = [disk EXCEPT ![pFiles[pIdx]].zip = Absent,
                            ![pFiles[pIdx]].sum = Absent]
    /\ errorCount' = errorCount + 1
    /\ pResult' = Processed(pFiles[pIdx], zipData, sumData, outcome)
    /\ Continue(AfterFile(pIdx))
    /\ UNCHANGED <<server, pFiles, successCount>>

DownloadError(error) == Outcome(FALSE, error, <<>>, 0, Absent)

\* discoverFilesWithXML returns the manifest; runWorker returns when it is
\* empty and calls processFileComplete on the first file otherwise.
PipeDiscover ==
    /\ pPc = "discover"
    /\ pFiles' = [i \in 1..Len(server) |-> i]
    /\ IF Len(server) = 0
       THEN /\ pPc' = "nofiles"
            /\ UNCHANGED <<pIdx, pCalls, pRetry>>
       ELSE CallProcessFile(pFiles', 1)
    /\ UNCHANGED <<server, disk, successCount, errorCount, pResult>>
    /\ UNCHANGED notPipe

\* discoverFilesWithXML throws: runWorker logs and throws
PipeDiscoverFails ==
    /\ pPc = "discover"
    /\ pPc' = "failed"
    /\ UNCHANGED <<server, disk, pFiles, pIdx, pRetry, successCount,
                   errorCount, pCalls, pResult>>
    /\ UNCHANGED notPipe

\* The response of a download arrives and ends: a status other than 200
\* rejects; otherwise the file is opened and the promise resolves at 'end'.
PipeResponse ==
    /\ pPc \in {"zip", "sum"}
    /\ LET f == pFiles[pIdx]
           status == IF pPc = "zip" THEN server[f].zipStatus ELSE server[f].sumStatus
       IN  IF status # 200
           THEN FileError(disk[f].zip, disk[f].sum, DownloadError("HTTP"))
           ELSE /\ disk' = IF pPc = "zip"
                           THEN [disk EXCEPT ![f].zip = DownloadedTo(server[f].zip)]
                           ELSE [disk EXCEPT ![f].sum = DownloadedTo(server[f].sum)]
                /\ pPc' = IF pPc = "zip" THEN "sum" ELSE "verify"
                /\ pRetry' = 0
                /\ UNCHANGED <<server, pFiles, pIdx, successCount, errorCount,
                               pCalls, pResult>>
    /\ UNCHANGED notPipe

\* request.on('error'): the download is called again while retryCount is
\* below maxRetries, and rejects after that.
PipeRequestError ==
    /\ pPc \in {"zip", "sum"}
    /\ server[pFiles[pIdx]].flaky
    /\ IF pRetry < pipeMaxRetries
       THEN /\ pRetry' = pRetry + 1
            /\ UNCHANGED <<server, disk, pPc, pFiles, pIdx, successCount,
                           errorCount, pCalls, pResult>>
       ELSE FileError(disk[pFiles[pIdx]].zip, disk[pFiles[pIdx]].sum,
                      DownloadError("Network"))
    /\ UNCHANGED notPipe

\* request.on('timeout'), or response.on('error') after the file was
\* opened: the download rejects.
PipeTransferAborts ==
    /\ pPc \in {"zip", "sum"}
    /\ server[pFiles[pIdx]].flaky
    /\ FileError(disk[pFiles[pIdx]].zip, disk[pFiles[pIdx]].sum,
                 DownloadError("Timeout"))
    /\ UNCHANGED notPipe

\* Steps 3 to 5 of processFileComplete, and what runWorker does with the
\* result: count the success, or clean up and count the error.
PipeVerify ==
    /\ pPc = "verify"
    /\ LET f == pFiles[pIdx]
           r == ProcessChecks(disk[f].zip, disk[f].sum)
       IN  IF r.success
           THEN /\ disk' = [disk EXCEPT ![f].csv = r.csv]
                /\ successCount' = successCount + 1
                /\ pResult' = Processed(f, disk[f].zip, disk[f].sum, r)
                /\ Continue(IF pIdx < Len(pFiles) THEN "next" ELSE "done")
                /\ UNCHANGED <<server, pFiles, errorCount>>
           ELSE FileError(disk[f].zip, disk[f].sum, r)
    /\ UNCHANGED notPipe

PipeNext ==
    \/ PipeDiscover
    \/ PipeDiscoverFails
    \/ PipeResponse
    \/ PipeRequestError
    \/ PipeTransferAborts
    \/ PipeVerify

\* The files the checks of processFileComplete may find on disk
SidecarContents ==
    { Absent, EmptyFile, Text(<<NameToken>>),
      Text(<<UpperToken(Md5Hex(GoodZip))>>),
      Text(<<Md5Hex(GoodZip), NameToken>>) }
    \cup {Text(<<Md5Hex(ZipContents[i])>>) : i \in DOMAIN ZipContents}

ArchiveContents == {ZipContents[i] : i \in DOMAIN ZipContents} \cup {Absent}

\* processFileComplete at step 3, on every pair of downloaded files
VerifyInit ==
    /\ server = <<Served(200, 200, FALSE, GoodZip, Text(<<Md5Hex(GoodZip)>>))>>
    /\ \E z \in ArchiveContents, c \in SidecarContents :
          disk = <<[zip |-> z, sum |-> c, csv |-> Absent]>>
    /\ pPc = "verify"
    /\ pFiles = <<1>>
    /\ pIdx = 1
    /\ pRetry = 0
    /\ successCount = 0
    /\ errorCount = 0
    /\ pCalls = <<1>>
    /\ pResult = NothingProcessed

\* ------------------------------------------------------------------------
\* Concurrent download pool (src/github_actions_worker.js)
\* ------------------------------------------------------------------------

\* GITHUB_CONFIG.maxConcurrentDownloads
maxConcurrentDownloads == 15

\* What happens to the download of a file: the host answers 200 and the
\* body arrives ("ok"), the file is on disk already ("exists"), the host
\* answers another status ("http"), the request breaks or times out
\* ("neterr"), or the output directory cannot be made ("mkdir").
GhKinds == {"ok", "exists", "http", "neterr", "mkdir"}

GhServerSet == UNION {[1..n -> GhKinds] : n \in 0..MaxGhFiles}

GhInit ==
    /\ ghServer \in GhServerSet
    /\ ghPc = "discover"
    /\ currentIndex = 0
    /\ activeDownloads = {}
    /\ raced = {}
    /\ download = [f \in DOMAIN ghServer |-> "none"]
    /\ currentDownloads = {}
    /\ completedFiles = {}
    /\ filesDownloaded = 0
    /\ errors = 0

GhIdle ==
    /\ ghServer = <<>>
    /\ ghPc = "done"
    /\ currentIndex = 0
    /\ activeDownloads = {}
    /\ raced = {}
    /\ download = <<>>
    /\ currentDownloads = {}
    /\ completedFiles = {}
    /\ filesDownloaded = 0
    /\ errors = 0

\* discoverFiles resolves; without files runWorker returns
GhDiscover ==
    /\ ghPc = "discover"
    /\ ghPc' = IF Len(ghServer) = 0 THEN "done" ELSE "fill"
    /\ UNCHANGED <<ghServer, currentIndex, activeDownloads, raced, download,
                   currentDownloads, completedFiles, filesDownloaded, errors>>
    /\ UNCHANGED notGh

\* The inner while loop starts the next download: downloadFile(file) runs
\* to its first await, its promise goes into activeDownloads, and runWorker
\* awaits downloadDelay.
GhStartDownload ==
    /\ ghPc = "fill"
    /\ Cardinality(activeDownloads) < maxConcurrentDownloads
    /\ currentIndex < Len(ghServer)
    /\ currentIndex' = currentIndex + 1
    /\ download' = [download EXCEPT ![currentIndex + 1] = "prepare"]
    /\ currentDownloads' = currentDownloads \cup {currentIndex + 1}
    /\ activeDownloads' = activeDownloads \cup {currentIndex + 1}
    /\ ghPc' = "delay"
    /\ UNCHANGED <<ghServer, raced, completedFiles, filesDownloaded, errors>>
    /\ UNCHANGED notGh

\* downloadDelay ends
GhDelayDone ==
    /\ ghPc = "delay"
    /\ ghPc' = "fill"
    /\ UNCHANGED <<ghServer, currentIndex, activeDownloads, raced, download,
                   currentDownloads, completedFiles, filesDownloaded, errors>>
    /\ UNCHANGED notGh

\* No download can be started: await Promise.race(activeDownloads) when
\* downloads are active (it rejects at once when a promise of the set is
\* rejected already), and leave the outer loop when none is.
GhWait ==
    /\ ghPc = "fill"
    /\ ~(/\ Cardinality(activeDownloads) < maxConcurrentDownloads
         /\ currentIndex < Len(ghServer))
    /\ IF activeDownloads = {}
       THEN ghPc' = "done"
       ELSE IF \E f \in activeDownloads : download[f] = "rejected"
       THEN ghPc' = "failed"
       ELSE ghPc' = "race"
    /\ raced' = raced \cup activeDownloads
    /\ UNCHANGED <<ghServer, currentIndex, activeDownloads, download,
                   currentDownloads, completedFiles, filesDownloaded, errors>>
    /\ UNCHANGED notGh

\* The promise of downloadFile(f) is fulfilled: its then-callback deletes
\* it from activeDownloads, and a pending Promise.race resolves.
Fulfilled(f) ==
    /\ download' = [download EXCEPT ![f] = "fulfilled"]
    /\ activeDownloads' = activeDownloads \ {f}
    /\ ghPc' = IF ghPc = "race" THEN "fill" ELSE ghPc
    /\ UNCHANGED raced

\* The promise of downloadFile(f) is rejected: a pending Promise.race
\* rejects and runWorker throws; a promise no Promise.race has seen yet is
\* an unhandled rejection, which ends the process or is only reported,
\* depending on the runtime.  The promise stays in activeDownloads.
Rejected(f) ==
    /\ download' = [download EXCEPT ![f] = "rejected"]
    /\ ghPc' \in IF ghPc = "race" THEN {"failed"}
                 ELSE IF f \in raced THEN {ghPc}
                 ELSE {ghPc, "crashed"}
    /\ UNCHANGED <<activeDownloads, raced>>

\* mkdir and stat of downloadFile(f) are done.  A failed mkdir is caught:
\* errors++ and the call returns false.  A file on disk returns true.
\* Otherwise the call returns the promise of the request without awaiting
\* it, so its finally block runs now and its catch block is left.
GhPrepared(f) ==
    /\ ghPc \notin {"failed", "crashed"}
    /\ download[f] = "prepare"
    /\ currentDownloads' = currentDownloads \ {f}
    /\ IF ghServer[f] = "mkdir"
       THEN /\ errors' = errors + 1
            /\ Fulfilled(f)
            /\ UNCHANGED completedFiles
       ELSE IF ghServer[f] = "exists"
       THEN /\ completedFiles' = completedFiles \cup {f}
            /\ Fulfilled(f)
            /\ UNCHANGED errors
       ELSE /\ download' = [download EXCEPT ![f] = "request"]
            /\ UNCHANGED <<activeDownloads, raced, ghPc, completedFiles, errors>>
    /\ UNCHANGED <<ghServer, currentIndex, filesDownloaded>>
    /\ UNCHANGED notGh

\* response 'end' after a status of 200: resolve(true)
GhResponseEnds(f) ==
    /\ ghPc \notin {"failed", "crashed"}
    /\ download[f] = "request"
    /\ ghServer[f] = "ok"
    /\ filesDownloaded' = filesDownloaded + 1
    /\ completedFiles' = completedFiles \cup {f}
    /\ Fulfilled(f)
    /\ UNCHANGED <<ghServer, currentIndex, currentDownloads, errors>>
    /\ UNCHANGED notGh

\* A status other than 200, request 'error' or 'timeout': reject(error)
GhRequestFails(f) ==
    /\ ghPc \notin {"failed", "crashed"}
    /\ download[f] = "request"
    /\ ghServer[f] \in {"http", "neterr"}
    /\ Rejected(f)
    /\ UNCHANGED <<ghServer, currentIndex, currentDownloads, completedFiles,
                   filesDownloaded, errors>>
    /\ UNCHANGED notGh

GhNext ==
    \/ GhDiscover
    \/ GhStartDownload
    \/ GhDelayDone
    \/ GhWait
    \/ \E f \in DOMAIN ghServer :
          \/ GhPrepared(f)
          \/ GhResponseEnds(f)
          \/ GhRequestFails(f)

\* ------------------------------------------------------------------------
\* Transfer of one response body to the local file
\* (downloadFileWithRetry of worker_system_production_adapted.js,
\*  downloadFile of github_actions_worker.js, downloadFile of part_002)
\* ------------------------------------------------------------------------

Impls == {"adapted", "github", "production"}

\* A chunk is a non-empty sequence of bytes
Chunks == {<<1>>, <<2>>, <<1, 2>>}

Bodies == UNION {[1..n -> Chunks] : n \in 0..MaxChunks}

RECURSIVE Concat(_)
Concat(chunks) ==
    IF chunks = <<>> THEN <<>>
    ELSE Head(chunks) \o Concat(Tail(chunks))

\* No file at the local path: a file is a sequence of bytes
NoLocalFile == <<0>>

\* The sizes a content-length header or the listing can announce for a body
SizesFor(body) == {0, Len(Concat(body)), Len(Concat(body)) + 1}

\* The files a transfer may find at the local path
ExistingFiles ==
    {NoLocalFile} \cup UNION {[1..n -> {1}] : n \in 0..MaxSize}

\* discoverFiles of github_actions_worker.js sets size: 0 in every
\* descriptor; the listing gives the other two the size of the key
FileSizes(impl) == IF impl = "github" THEN {0} ELSE 0..MaxSize

XferInit ==
    /\ xfImpl \in Impls
    /\ xfBody \in Bodies
    /\ xfPc = "check"
    /\ received = 0
    /\ existing \in ExistingFiles
    /\ localFile = existing
    /\ fileSize \in FileSizes(xfImpl)
    /\ downloadedBytes = 0
    /\ expectedSize = 0
    /\ reportedBytes = 0
    /\ requests = 0
    /\ unlinkPending = FALSE

XferIdle ==
    /\ xfImpl = "adapted"
    /\ xfBody = <<>>
    /\ xfPc = "failed"
    /\ received = 0
    /\ existing = NoLocalFile
    /\ localFile = NoLocalFile
    /\ fileSize = 0
    /\ downloadedBytes = 0
    /\ expectedSize = 0
    /\ reportedBytes = 0
    /\ requests = 0
    /\ unlinkPending = FALSE

SkipNever(impl, file, size) == FALSE

\* The test on fs.stat of the local path that makes a transfer return true
\* at once: stats.size === file.size in part_002, stats.size > 0 in
\* github_actions_worker.js; downloadFileWithRetry has no such test.
SkipExisting(impl, file, size) ==
    /\ file # NoLocalFile
    /\ CASE impl = "production" -> Len(file) = size
         [] impl = "github" -> Len(file) > 0
         [] OTHER -> FALSE

\* The start of a transfer: the local file is kept and true is returned,
\* or the request is issued (part_002 unlinks a file of another size
\* before).
XferCheck ==
    /\ xfPc = "check"
    /\ IF SkipExisting(xfImpl, localFile, fileSize)
       THEN /\ xfPc' = "skipped"
            /\ UNCHANGED <<localFile, requests>>
       ELSE /\ xfPc' = "request"
            /\ requests' = requests + 1
            /\ localFile' = IF xfImpl = "production" THEN NoLocalFile
                            ELSE localFile
    /\ UNCHANGED <<xfImpl, xfBody, received, downloadedBytes, expectedSize,
                   reportedBytes, fileSize, existing, unlinkPending>>
    /\ UNCHANGED notXfer

\* The status is 200 (response.ok): createWriteStream makes the local file
\* empty.  part_002 expects the content-length, or file.size without it.
XferResponse ==
    /\ xfPc = "request"
    /\ xfPc' = "streaming"
    /\ localFile' = <<>>
    /\ \E contentLength \in SizesFor(xfBody) :
          expectedSize' = IF xfImpl # "production" THEN 0
                          ELSE IF contentLength # 0 THEN contentLength
                          ELSE fileSize
    /\ UNCHANGED <<xfImpl, xfBody, received, downloadedBytes, reportedBytes,
                   fileSize, existing, requests, unlinkPending>>
    /\ UNCHANGED notXfer

\* Another status, a request error or a timeout: the transfer fails before
\* a file is made
XferRefused ==
    /\ xfPc = "request"
    /\ xfPc' = "failed"
    /\ UNCHANGED <<xfImpl, xfBody, received, localFile, downloadedBytes,
                   expectedSize, reportedBytes, fileSize, existing, requests,
                   unlinkPending>>
    /\ UNCHANGED notXfer

\* What the handler of a chunk leaves in the local file: part_002 calls
\* fileStream.write(Buffer.from(value)); the 'data' handlers of the other
\* two only add chunk.length to downloadedBytes.
WriteChunk(impl, file, chunk) ==
    IF impl = "production" THEN file \o chunk ELSE file

ExceedsNever(expected, bytes) == FALSE

\* if (expectedSize && downloadedBytes > expectedSize)
Exceeds(expected, bytes) == expected # 0 /\ bytes > expected

\* A chunk arrives.  part_002 throws when more than the expected size has
\* come, ends the stream and unlinks the file.
XferChunk ==
    /\ xfPc = "streaming"
    /\ received < Len(xfBody)
    /\ received' = received + 1
    /\ downloadedBytes' = downloadedBytes + Len(xfBody[received + 1])
    /\ IF /\ xfImpl = "production"
          /\ Exceeds(expectedSize, downloadedBytes')
       THEN /\ xfPc' = "failed"
            /\ localFile' = NoLocalFile
       ELSE /\ xfPc' = "streaming"
            /\ localFile' = WriteChunk(xfImpl, localFile, xfBody[received + 1])
    /\ UNCHANGED <<xfImpl, xfBody, expectedSize, reportedBytes, fileSize,
                   existing, requests, unlinkPending>>
    /\ UNCHANGED notXfer

\* The body ends: fileStream.end().  part_002 compares the size of the file
\* with the expected size and reports the size of the file; the other two
\* report downloadedBytes.
XferEnd ==
    /\ xfPc = "streaming"
    /\ received = Len(xfBody)
    /\ IF /\ xfImpl = "production"
          /\ expectedSize # 0
          /\ Len(localFile) # expectedSize
       THEN /\ xfPc' = "failed"
            /\ localFile' = NoLocalFile
            /\ UNCHANGED reportedBytes
       ELSE /\ xfPc' = "success"
            /\ reportedBytes' = IF xfImpl = "production" THEN Len(localFile)
                                ELSE downloadedBytes
            /\ UNCHANGED localFile
    /\ UNCHANGED <<xfImpl, xfBody, received, downloadedBytes, expectedSize,
                   fileSize, existing, requests, unlinkPending>>
    /\ UNCHANGED notXfer

\* The ways a transfer breaks after the status line: the response errors,
\* the request times out, or the write stream errors
Breaks == {"response", "timeout", "write"}

\* What a failing transfer does with the local file before it surfaces the
\* error.  part_002 awaits fs.unlink in its catch block, and has no
\* listener for an error of the write stream before the body has ended.
\* The other two call unlink(path, callback) without waiting for it in the
\* handler of a response error, and do not unlink in the handler of a
\* timeout or of a write stream error.
Cleanup(impl, break) ==
    IF impl = "production"
    THEN IF break = "write" THEN "uncaught" ELSE "awaited"
    ELSE IF break = "response" THEN "started" ELSE "none"

\* The transfer breaks in the middle of the body.  The timeout of part_002
\* is cleared when the response arrives.  After request.destroy() in the
\* handler of a timeout, the response may still emit its error and start
\* the unlink.
XferBreaks(break) ==
    /\ xfPc = "streaming"
    /\ received < Len(xfBody)
    /\ ~(xfImpl = "production" /\ break = "timeout")
    /\ LET cleanup == Cleanup(xfImpl, break)
       IN  /\ xfPc' = IF cleanup = "uncaught" THEN "crashed" ELSE "failed"
           /\ localFile' = IF cleanup = "awaited" THEN NoLocalFile ELSE localFile
           /\ unlinkPending' \in
                 IF cleanup = "started" THEN {TRUE}
                 ELSE IF break = "timeout" THEN BOOLEAN
                 ELSE {FALSE}
    /\ UNCHANGED <<xfImpl, xfBody, received, downloadedBytes, expectedSize,
                   reportedBytes, fileSize, existing, requests>>
    /\ UNCHANGED notXfer

\* The unlink that was started is done
XferUnlinked ==
    /\ unlinkPending
    /\ unlinkPending' = FALSE
    /\ localFile' = NoLocalFile
    /\ UNCHANGED <<xfImpl, xfBody, xfPc, received, downloadedBytes,
                   expectedSize, reportedBytes, fileSize, existing, requests>>
    /\ UNCHANGED notXfer

XferNext ==
    \/ XferCheck
    \/ XferResponse
    \/ XferRefused
    \/ XferChunk
    \/ XferEnd
    \/ \E break \in Breaks : XferBreaks(break)
    \/ XferUnlinked

\* ------------------------------------------------------------------------
\* Paged discovery (discoverFilesWithXML of
\* worker_system_production_adapted.js, scrapeSymbolFiles of part_002)
\* ------------------------------------------------------------------------

DiscImpls == {"adapted", "production"}

\* A key is the sequence of the parts of its name between the dots
ZipKey(i) == <<ToString(i), "zip">>
SidecarKey(i) == <<ToString(i), "zip", "CHECKSUM">>

\* The listing of n archives, those of sidecars with a .zip.CHECKSUM key
\* next to them, in the order of the keys
RECURSIVE ListingFor(_, _)
ListingFor(n, sidecars) ==
    IF n = 0 THEN <<>>
    ELSE ListingFor(n - 1, sidecars) \o <<ZipKey(n)>>
         \o (IF n \in sidecars THEN <<SidecarKey(n)>> ELSE <<>>)

Listings ==
    {ListingFor(n, sidecars) : <<n, sidecars>> \in
        UNION {{n} \X SUBSET (1..n) : n \in 0..MaxArchives}}

\* let marker = undefined
NoMarker == <<>>

\* key.endsWith(suffix)
EndsWith(key, suffix) ==
    /\ Len(key) >= Len(suffix)
    /\ SubSeq(key, Len(key) - Len(suffix) + 1, Len(key)) = suffix

IsArchiveKeyAnyZip(impl, key) == \E i \in DOMAIN key : key[i] = "zip"

\* The keys a descriptor is made for
IsArchiveKey(impl, key) ==
    IF impl = "adapted"
    THEN EndsWith(key, <<"zip">>) /\ ~EndsWith(key, <<"zip", "CHECKSUM">>)
    ELSE EndsWith(key, <<"zip">>)

\* files.push({symbol, filename, url, ...})
Descriptor(key) == [filename |-> key, url |-> key]

RECURSIVE DescriptorsOf(_, _)
DescriptorsOf(impl, keys) ==
    IF keys = <<>> THEN <<>>
    ELSE (IF IsArchiveKey(impl, Head(keys)) THEN <<Descriptor(Head(keys))>>
          ELSE <<>>) \o DescriptorsOf(impl, Tail(keys))

\* The position in the listing of the last key at or before the marker
After(m) ==
    IF m = NoMarker THEN 0
    ELSE CHOOSE i \in DOMAIN listing : listing[i] = m

Min(a, b) == IF a < b THEN a ELSE b

\* The page the server answers for a marker: the next pageSize keys after
\* it, and whether keys remain
PageKeys(m) == SubSeq(listing, After(m) + 1, Min(After(m) + pageSize, Len(listing)))
IsTruncated(m) == After(m) + pageSize < Len(listing)

\* The NextMarker of a truncated page: the last key the page holds
NextMarker(m) == listing[After(m) + pageSize]

DiscInit ==
    /\ dsImpl \in DiscImpls
    /\ listing \in Listings
    /\ pageSize \in 1..MaxPageSize
    /\ dsPc = "fetch"
    /\ marker = NoMarker
    /\ dsFiles = <<>>
    /\ page = 0
    /\ retryCount = 0
    /\ nextMarker = NoMarker
    /\ isTruncated = FALSE
    /\ keyCount = 0

DiscIdle ==
    /\ dsImpl = "adapted"
    /\ listing = <<>>
    /\ pageSize = 1
    /\ dsPc = "failed"
    /\ marker = NoMarker
    /\ dsFiles = <<>>
    /\ page = 0
    /\ retryCount = 0
    /\ nextMarker = NoMarker
    /\ isTruncated = FALSE
    /\ keyCount = 0

NextRequestMarkerFirstKey(sent, keys) == keys[1]

\* The marker of the next request: result.NextMarker when the page has
\* one, and the key of the last entry of the page otherwise
NextRequestMarker(sent, keys) ==
    IF sent # NoMarker THEN sent ELSE keys[Len(keys)]

LoopEndsAtOnce(truncated, sent, count) == TRUE

\* if (!isTruncated) break; and, with neither a NextMarker nor a key to
\* take the marker from, the break of the last else branch
LoopEnds(truncated, sent, count) ==
    ~truncated \/ (sent = NoMarker /\ count = 0)

\* One turn of the while loop on a page of the given keys, truncated or
\* not, with the NextMarker sent: the archive keys are pushed, and the
\* loop ends or the marker of the next request is set.
PageReceived(keys, truncated, sent) ==
    /\ dsPc = "fetch"
    /\ page' = page + 1
    /\ nextMarker' = sent
    /\ isTruncated' = truncated
    /\ keyCount' = Len(keys)
    /\ dsFiles' = dsFiles \o DescriptorsOf(dsImpl, keys)
    /\ IF LoopEnds(truncated, sent, Len(keys))
       THEN /\ dsPc' = "done"
            /\ UNCHANGED marker
       ELSE /\ marker' = NextRequestMarker(sent, keys)
            /\ dsPc' = "fetch"
    /\ UNCHANGED <<dsImpl, listing, pageSize, retryCount>>
    /\ UNCHANGED notDisc

\* The page of the server is fetched: the keys after the marker, with the
\* NextMarker when the page is truncated and the server sends one.
DiscoverPage(sendsNextMarker) ==
    LET sent == IF IsTruncated(marker) /\ sendsNextMarker
                THEN NextMarker(marker) ELSE NoMarker
    IN  PageReceived(PageKeys(marker), IsTruncated(marker), sent)

\* The server answers a page that says it is truncated and holds neither
\* a key nor a NextMarker
DiscoverEmptyPage == PageReceived(<<>>, TRUE, NoMarker)

\* The fetch of a page throws: discoverFilesWithXML throws;
\* scrapeSymbolFiles starts again with retryCount + 1 while retryCount is
\* less than maxRetries, and throws after that.
DiscoverFetchFails ==
    /\ dsPc = "fetch"
    /\ IF dsImpl = "production" /\ retryCount < maxRetries
       THEN /\ retryCount' = retryCount + 1
            /\ dsFiles' = <<>>
            /\ marker' = NoMarker
            /\ nextMarker' = NoMarker
            /\ isTruncated' = FALSE
            /\ keyCount' = 0
            /\ page' = 0
            /\ dsPc' = "fetch"
       ELSE /\ dsPc' = "failed"
            /\ page' = page + 1
            /\ UNCHANGED <<retryCount, dsFiles, marker, nextMarker,
                           isTruncated, keyCount>>
    /\ UNCHANGED <<dsImpl, listing, pageSize>>
    /\ UNCHANGED notDisc

\* What the caller of discovery gets: the files of "return files", and
\* nothing of them with "throw error" / "throw new Error(finalError)",
\* which hand over an error object with a message.
Surfaced == IF dsPc = "done" THEN dsFiles ELSE <<>>

DiscNext ==
    \/ \E sendsNextMarker \in BOOLEAN : DiscoverPage(sendsNextMarker)
    \/ DiscoverFetchFails

\* The same against a server that may also answer an empty truncated page
PagesNext ==
    \/ \E sendsNextMarker \in BOOLEAN : DiscoverPage(sendsNextMarker)
    \/ DiscoverEmptyPage
    \/ DiscoverFetchFails

\* ------------------------------------------------------------------------
\* Backoff of the retries of one item (downloaderWorker of part_002)
\* ------------------------------------------------------------------------

\* WORKER_CONFIG.retryDelay
retryDelay == 2000

\* WORKER_CONFIG has no field that limits the delay of a retry
ConfiguredDelayCaps == {}

\* The clock moves in steps of the base delay
ClockStep == retryDelay

backoffDelayLinear(retries) == retryDelay * retries

\* const backoffDelay = WORKER_CONFIG.retryDelay * Math.pow(2, file.retries - 1)
backoffDelay(retries) == retryDelay * 2 ^ (retries - 1)

BackoffInit ==
    /\ boPc = "downloading"
    /\ boRetries = 0
    /\ boNow = 0
    /\ boSetAt = 0
    /\ boDue = 0
    /\ boQueuedAt = 0

BackoffIdle ==
    /\ boPc = "done"
    /\ boRetries = 0
    /\ boNow = 0
    /\ boSetAt = 0
    /\ boDue = 0
    /\ boQueuedAt = 0

\* Time passes
BoTick ==
    /\ boPc # "done"
    /\ boNow < MaxTicks * ClockStep
    /\ boNow' = boNow + ClockStep
    /\ UNCHANGED <<boPc, boRetries, boSetAt, boDue, boQueuedAt>>
    /\ UNCHANGED notBackoff

\* downloadFile returns true
BoDownloadSucceeds ==
    /\ boPc = "downloading"
    /\ boPc' = "done"
    /\ UNCHANGED <<boRetries, boNow, boSetAt, boDue, boQueuedAt>>
    /\ UNCHANGED notBackoff

\* downloadFile throws: file.retries++
BoDownloadFails ==
    /\ boPc = "downloading"
    /\ boRetries' = boRetries + 1
    /\ boPc' = "failed"
    /\ UNCHANGED <<boNow, boSetAt, boDue, boQueuedAt>>
    /\ UNCHANGED notBackoff

\* Retries are left: setTimeout(() => retryQueue.push(file), backoffDelay)
BoScheduleRetry ==
    /\ boPc = "failed"
    /\ RetriesLeft(boRetries)
    /\ boSetAt' = boNow
    /\ boDue' = boNow + backoffDelay(boRetries)
    /\ boPc' = "waiting"
    /\ UNCHANGED <<boRetries, boNow, boQueuedAt>>
    /\ UNCHANGED notBackoff

\* No retries are left: state.failedDownloads.set(file.url, {...})
BoRecordFailure ==
    /\ boPc = "failed"
    /\ ~RetriesLeft(boRetries)
    /\ boPc' = "done"
    /\ UNCHANGED <<boRetries, boNow, boSetAt, boDue, boQueuedAt>>
    /\ UNCHANGED notBackoff

\* The timer is due and its callback runs: retryQueue.push(file)
BoTimerFires ==
    /\ boPc = "waiting"
    /\ boNow >= boDue
    /\ boQueuedAt' = boNow
    /\ boPc' = "queued"
    /\ UNCHANGED <<boRetries, boNow, boSetAt, boDue>>
    /\ UNCHANGED notBackoff

\* A downloader takes the item from retryQueue
BoDequeue ==
    /\ boPc = "queued"
    /\ boPc' = "downloading"
    /\ UNCHANGED <<boRetries, boNow, boSetAt, boDue, boQueuedAt>>
    /\ UNCHANGED notBackoff

BackoffNext ==
    \/ BoTick
    \/ BoDownloadSucceeds
    \/ BoDownloadFails
    \/ BoScheduleRetry
    \/ BoRecordFailure
    \/ BoTimerFires
    \/ BoDequeue

\* ------------------------------------------------------------------------
\* Life of the process (main, loadState, saveState of part_002)
\* ------------------------------------------------------------------------

\* No STATE_FILE, and no data
NoCheckpoint == [saved |-> FALSE, scrapedSymbols |-> {}, downloadedFiles |-> {},
                 failedSymbols |-> {}, failedDownloads |-> <<>>]

\* const data = {...} of saveState
StateData == [saved |-> TRUE, scrapedSymbols |-> scrapedSymbols,
              downloadedFiles |-> downloadedFiles,
              failedSymbols |-> failedSymbols,
              failedDownloads |-> failedDownloads]

\* The transfers in flight: the item and the number of its attempt
InFlight == {<<dFile[w], items[dFile[w]].attempts>> :
                w \in {d \in Downloaders : dPc[d] = "downloading"}}

LifeInit ==
    /\ procPc = "up"
    /\ sigPc = "none"
    /\ saving = NoCheckpoint
    /\ checkpoint = NoCheckpoint
    /\ loaded = NoCheckpoint
    /\ atSignal = {}
    /\ runs = 1

LifeIdle ==
    /\ procPc = "exited"
    /\ sigPc = "none"
    /\ saving = NoCheckpoint
    /\ checkpoint = NoCheckpoint
    /\ loaded = NoCheckpoint
    /\ atSignal = {}
    /\ runs = 1

\* The workers of the running process.  The server fails at most
\* MaxLifeFailures downloads, fewer than maxRetries: every failed download
\* is retried.
PoolWork ==
    /\ procPc = "up"
    /\ \/ \E w \in Scrapers :
             \/ ScraperPick(w)
             \/ ScrapeReturns(w)
             \/ ScrapeThrows(w)
             \/ ScraperRecord(w)
             \/ ScraperWakes(w)
       \/ \E w \in Downloaders :
             \/ Dequeue(w)
             \/ DownloadSucceeds(w)
             \/ /\ failures < MaxLifeFailures
                /\ \E error \in DownloadErrors : DownloadFails(w, error)
             \/ ScheduleRetry(w)
       \/ \E id \in timers : TimerFires(id)

\* statusReporter: await saveState() after every progressInterval
PeriodicSave ==
    /\ procPc = "up"
    /\ ~isShuttingDown
    /\ checkpoint # StateData
    /\ checkpoint' = StateData
    /\ UNCHANGED <<procPc, sigPc, saving, loaded, atSignal, runs>>
    /\ UNCHANGED poolVars
    /\ UNCHANGED notPoolLife

\* SIGINT or SIGTERM arrives: the handler awaits its first log line
SignalArrives ==
    /\ procPc = "up"
    /\ sigPc = "none"
    /\ sigPc' = "log"
    /\ atSignal' = InFlight
    /\ UNCHANGED <<procPc, saving, checkpoint, loaded, runs>>
    /\ UNCHANGED poolVars
    /\ UNCHANGED notPoolLife

\* isShuttingDown = true; saveState() builds its data and awaits writeFile
SignalSetsFlag ==
    /\ procPc = "up"
    /\ sigPc = "log"
    /\ isShuttingDown' = TRUE
    /\ saving' = StateData
    /\ sigPc' = "saving"
    /\ UNCHANGED <<procPc, checkpoint, loaded, atSignal, runs>>
    /\ UNCHANGED <<items, downloadQueue, retryQueue, timers, scrapedSymbols,
                   failedSymbols, downloadedFiles, failedDownloads, sPc,
                   sSym, dPc, dFile, dErr, failures>>
    /\ UNCHANGED notPoolLife

\* writeFile is done, or has failed and the failure is logged; the handler
\* awaits its last log line
SignalSaved(written) ==
    /\ procPc = "up"
    /\ sigPc = "saving"
    /\ checkpoint' = IF written THEN saving ELSE checkpoint
    /\ saving' = NoCheckpoint
    /\ sigPc' = "logged"
    /\ UNCHANGED <<procPc, loaded, atSignal, runs>>
    /\ UNCHANGED poolVars
    /\ UNCHANGED notPoolLife

\* process.exit(0): the handler does not wait for the workers
SignalExit ==
    /\ procPc = "up"
    /\ sigPc = "logged"
    /\ procPc' = "exited"
    /\ sigPc' = "none"
    /\ UNCHANGED <<saving, checkpoint, loaded, atSignal, runs>>
    /\ UNCHANGED poolVars
    /\ UNCHANGED notPoolLife

LoadNothing(field, saved, fresh) == fresh

\* state.x = new Set(saved.x || []) of loadState
Load(field, saved, fresh) == IF saved.saved THEN saved[field] ELSE fresh

\* The next run of the program: the queues, the timers and the workers are
\* and the work item objects are new, loadState reads STATE_FILE.
Restart ==
    /\ procPc = "exited"
    /\ runs < MaxRuns
    /\ runs' = runs + 1
    /\ procPc' = "up"
    /\ loaded' = checkpoint
    /\ scrapedSymbols' = Load("scrapedSymbols", checkpoint, {})
    /\ downloadedFiles' = Load("downloadedFiles", checkpoint, {})
    /\ failedSymbols' = Load("failedSymbols", checkpoint, {})
    /\ failedDownloads' = Load("failedDownloads", checkpoint, <<>>)
    /\ downloadQueue' = <<>>
    /\ retryQueue' = <<>>
    /\ timers' = {}
    /\ isShuttingDown' = FALSE
    /\ sPc' = [w \in Scrapers |-> "read"]
    /\ sSym' = [w \in Scrapers |-> NoSymbol]
    /\ dPc' = [w \in Downloaders |-> "idle"]
    /\ dFile' = [w \in Downloaders |-> NoFile]
    /\ dErr' = [w \in Downloaders |-> NoError]
    /\ items' = <<>>
    /\ atSignal' = {}
    /\ UNCHANGED <<failures, sigPc, saving, checkpoint>>
    /\ UNCHANGED notPoolLife

LifeNext ==
    \/ PoolWork
    \/ PeriodicSave
    \/ SignalArrives
    \/ SignalSetsFlag
    \/ \E written \in BOOLEAN : SignalSaved(written)
    \/ SignalExit
    \/ Restart

\* ------------------------------------------------------------------------
\* Discovery run again against one listing of one page
\* ------------------------------------------------------------------------

AgainImpls == {"adapted", "github"}

\* An entry of the listing: its key, its <Size> and whether it has a
\* <LastModified> tag (github reads only the key, from the href)
ContentsEntry(i, stamped) ==
    [key |-> ZipKey(i), size |-> i, lastModified |-> stamped]

\* The listings of n archives of which those of stamped have a
\* <LastModified> tag
ContentsFor(n, stamped) == [i \in 1..n |-> ContentsEntry(i, i \in stamped)]

ContentsSet ==
    {ContentsFor(n, stamped) : <<n, stamped>> \in
        UNION {{n} \X SUBSET (1..n) : n \in 0..MaxArchives}}

\* xml.match(/<LastModified>([^<]+)<\/LastModified>/g): the tags the
\* document holds, in its order; the tag of entry i carries the time i
RECURSIVE LastModifiedMatches(_)
LastModifiedMatches(xml) ==
    IF xml = <<>> THEN <<>>
    ELSE LET rest == LastModifiedMatches(SubSeq(xml, 1, Len(xml) - 1))
         IN  IF xml[Len(xml)].lastModified
             THEN rest \o <<<<"LastModified", Len(xml)>>>>
             ELSE rest

\* new Date().toISOString()
ToISOString(time) == <<"Date", time>>

\* The lastModified of the descriptor of the entry at index: adapted takes
\* the tag at that index of the matches and the time of the call when
\* there is none, github takes the time of the call
LastModifiedOf(impl, xml, index, time) ==
    IF impl = "adapted" /\ index <= Len(LastModifiedMatches(xml))
    THEN LastModifiedMatches(xml)[index]
    ELSE ToISOString(time)

\* The size of the descriptor: the <Size> of the entry, and 0 in github
SizeOf(impl, xml, index) == IF impl = "adapted" THEN xml[index].size ELSE 0

\* files.push({filename, url, size, lastModified}) for every entry
ManifestOf(impl, xml, time) ==
    [index \in 1..Len(xml) |->
        [filename     |-> xml[index].key,
         url          |-> xml[index].key,
         size         |-> SizeOf(impl, xml, index),
         lastModified |-> LastModifiedOf(impl, xml, index, time)]]

AgainInit ==
    /\ rdImpl \in AgainImpls
    /\ contents \in ContentsSet
    /\ now = 0
    /\ manifests = <<>>

AgainIdle ==
    /\ rdImpl = "adapted"
    /\ contents = <<>>
    /\ now = 0
    /\ manifests = <<>>

\* Time passes
ClockTicks ==
    /\ now < MaxClock
    /\ now' = now + 1
    /\ UNCHANGED <<rdImpl, contents, manifests>>
    /\ UNCHANGED notAgain

\* One run of discovery returns its files
DiscoverAgain ==
    /\ Len(manifests) < MaxDiscoveries
    /\ manifests' = Append(manifests, ManifestOf(rdImpl, contents, now))
    /\ UNCHANGED <<rdImpl, contents, now>>
    /\ UNCHANGED notAgain

AgainNext ==
    \/ ClockTicks
    \/ DiscoverAgain

\* ------------------------------------------------------------------------
\* One listing request and its retries
\* ------------------------------------------------------------------------

\* request.on('error'), request.on('timeout'), response.statusCode !== 200
\* (!res.ok and AbortError in fetchXml)
FetchErrors == {"network", "timeout", "status"}

\* The failures after which the request is made again: fetchXML retries in
\* its 'error' handler only; the catch block of scrapeSymbolFiles catches
\* whatever fetchXml throws
Retried(impl, error) == impl = "production" \/ error = "network"

\* WORKER_CONFIG.maxRetries of the implementation
FetchRetries(impl) == IF impl = "adapted" THEN pipeMaxRetries ELSE maxRetries

\* WORKER_CONFIG.retryDelay * (retryCount + 1)
listingRetryDelay(count) == retryDelay * (count + 1)

FetchInit ==
    /\ fxImpl \in DiscImpls
    /\ fxPc = "request"
    /\ fxRetryCount = 0
    /\ fxErrors = <<>>
    /\ fxDelays = <<>>

FetchIdle ==
    /\ fxImpl = "adapted"
    /\ fxPc = "resolved"
    /\ fxRetryCount = 0
    /\ fxErrors = <<>>
    /\ fxDelays = <<>>

\* The response arrives with status 200 and ends
FetchResolves ==
    /\ fxPc = "request"
    /\ fxPc' = "resolved"
    /\ UNCHANGED <<fxImpl, fxRetryCount, fxErrors, fxDelays>>
    /\ UNCHANGED notFetch

\* The attempt fails: setTimeout with the delay when the failure is one
\* that is retried and retryCount < maxRetries, reject / throw otherwise
FetchFails(error) ==
    /\ fxPc = "request"
    /\ fxErrors' = Append(fxErrors, error)
    /\ IF Retried(fxImpl, error) /\ fxRetryCount < FetchRetries(fxImpl)
       THEN /\ fxDelays' = Append(fxDelays, listingRetryDelay(fxRetryCount))
            /\ fxPc' = "waiting"
       ELSE /\ fxPc' = "rejected"
            /\ UNCHANGED fxDelays
    /\ UNCHANGED <<fxImpl, fxRetryCount>>
    /\ UNCHANGED notFetch

\* The timer fires: fetchXML(url, retryCount + 1) /
\* scrapeSymbolFiles(symbol, retryCount + 1)
FetchAgain ==
    /\ fxPc = "waiting"
    /\ fxRetryCount' = fxRetryCount + 1
    /\ fxPc' = "request"
    /\ UNCHANGED <<fxImpl, fxErrors, fxDelays>>
    /\ UNCHANGED notFetch

FetchNext ==
    \/ FetchResolves
    \/ \E error \in FetchErrors : FetchFails(error)
    \/ FetchAgain

\* ------------------------------------------------------------------------
\* Consecutive failures of one downloader worker (downloaderWorker of
\* part_002)
\* ------------------------------------------------------------------------

\* WORKER_CONFIG.maxConsecutiveFailures, WORKER_CONFIG.downloaderDelay
maxConsecutiveFailures == 10
downloaderDelay == 50

\* The delay of the worker that finds both queues empty
emptyQueueDelay == 1000

\* const delay = consecutiveFailures >= maxConsecutiveFailures ? 10000 : 1000
criticalErrorDelay(count) ==
    IF count >= maxConsecutiveFailures THEN 10000 ELSE 1000

HealthInit ==
    /\ hwPc = "loop"
    /\ consecutiveFailures = 0
    /\ statsErrors = 0
    /\ hwDelay = 0
    /\ hwCritical = FALSE

HealthIdle ==
    /\ hwPc = "stopped"
    /\ consecutiveFailures = 0
    /\ statsErrors = 0
    /\ hwDelay = 0
    /\ hwCritical = FALSE

\* Both queues are empty: the worker waits and goes to the loop head
HwQueuesEmpty ==
    /\ hwPc = "loop"
    /\ hwPc' = "wait"
    /\ hwDelay' = emptyQueueDelay
    /\ hwCritical' = FALSE
    /\ UNCHANGED <<consecutiveFailures, statsErrors>>
    /\ UNCHANGED notHealth

\* downloadFile returns true: consecutiveFailures = 0, then the delay
\* between downloads
HwDownloadSucceeds ==
    /\ hwPc = "loop"
    /\ consecutiveFailures' = 0
    /\ hwPc' = "wait"
    /\ hwDelay' = downloaderDelay
    /\ hwCritical' = FALSE
    /\ UNCHANGED statsErrors
    /\ UNCHANGED notHealth

\* downloadFile throws: the inner catch block counts the failure, sets the
\* retry or records the failed download, then the delay between downloads
HwDownloadFails ==
    /\ hwPc = "loop"
    /\ statsErrors < MaxWorkerErrors
    /\ consecutiveFailures' = consecutiveFailures + 1
    /\ statsErrors' = statsErrors + 1
    /\ hwPc' = "wait"
    /\ hwDelay' = downloaderDelay
    /\ hwCritical' = FALSE
    /\ UNCHANGED notHealth

\* Something outside the inner try throws (a log line, the shift): the
\* outer catch block counts the failure, waits the delay that depends on
\* the count, and logs the CRITICAL line when the count is at the limit
HwCriticalError ==
    /\ hwPc = "loop"
    /\ statsErrors < MaxWorkerErrors
    /\ consecutiveFailures' = consecutiveFailures + 1
    /\ statsErrors' = statsErrors + 1
    /\ hwPc' = "wait"
    /\ hwDelay' = criticalErrorDelay(consecutiveFailures')
    /\ hwCritical' = (consecutiveFailures' >= maxConsecutiveFailures)
    /\ UNCHANGED notHealth

\* The delay ends: while (!isShuttingDown)
HwDelayEnds ==
    /\ hwPc = "wait"
    /\ hwPc' = "loop"
    /\ UNCHANGED <<consecutiveFailures, statsErrors, hwDelay, hwCritical>>
    /\ UNCHANGED notHealth

HealthNext ==
    \/ HwQueuesEmpty
    \/ HwDownloadSucceeds
    \/ HwDownloadFails
    \/ HwCriticalError
    \/ HwDelayEnds

\* ------------------------------------------------------------------------
\* The size of activeDownloads (runWorker of github_actions_worker.js).
\* The promises of the set are counted, not told apart: the loops use the
\* set through size, add and delete only.
\* ------------------------------------------------------------------------

\* activeDownloads.size
ActiveSize == slPending + slRejected

HasCapacityOneMore(size) == size <= maxConcurrentDownloads

\* activeDownloads.size < GITHUB_CONFIG.maxConcurrentDownloads
HasCapacity(size) == size < maxConcurrentDownloads

SlotInit ==
    /\ slPc = "fill"
    /\ slFiles \in 1..MaxManyFiles
    /\ slIndex = 0
    /\ slPending = 0
    /\ slRejected = 0

SlotIdle ==
    /\ slPc = "done"
    /\ slFiles = 0
    /\ slIndex = 0
    /\ slPending = 0
    /\ slRejected = 0

\* The inner while loop starts a download, adds its promise and awaits
\* downloadDelay
SlStartDownload ==
    /\ slPc = "fill"
    /\ HasCapacity(ActiveSize)
    /\ slIndex < slFiles
    /\ slIndex' = slIndex + 1
    /\ slPending' = slPending + 1
    /\ slPc' = "delay"
    /\ UNCHANGED <<slFiles, slRejected>>
    /\ UNCHANGED notSlot

\* downloadDelay ends
SlDelayDone ==
    /\ slPc = "delay"
    /\ slPc' = "fill"
    /\ UNCHANGED <<slFiles, slIndex, slPending, slRejected>>
    /\ UNCHANGED notSlot

\* No download can be started: await Promise.race(activeDownloads), which
\* rejects at once when a promise of the set is rejected; the outer loop
\* ends when the set is empty
SlWait ==
    /\ slPc = "fill"
    /\ ~(HasCapacity(ActiveSize) /\ slIndex < slFiles)
    /\ slPc' = IF ActiveSize = 0 THEN "done"
               ELSE IF slRejected > 0 THEN "failed"
               ELSE "race"
    /\ UNCHANGED <<slFiles, slIndex, slPending, slRejected>>
    /\ UNCHANGED notSlot

\* A download is fulfilled: activeDownloads.delete(downloadPromise)
SlFulfilled ==
    /\ slPending > 0
    /\ slPending' = slPending - 1
    /\ slPc' = IF slPc = "race" THEN "fill" ELSE slPc
    /\ UNCHANGED <<slFiles, slIndex, slRejected>>
    /\ UNCHANGED notSlot

\* A download is rejected: its promise stays in the set
SlRejects ==
    /\ slPending > 0
    /\ slPending' = slPending - 1
    /\ slRejected' = slRejected + 1
    /\ slPc' = IF slPc = "race" THEN "failed" ELSE slPc
    /\ UNCHANGED <<slFiles, slIndex>>
    /\ UNCHANGED notSlot

SlotNext ==
    \/ SlStartDownload
    \/ SlDelayDone
    \/ SlWait
    \/ SlFulfilled
    \/ SlRejects

\* ------------------------------------------------------------------------
\* The order of the files of one symbol through downloadQueue and
\* retryQueue (scraperWorker and downloaderWorker of part_002).  Both
\* scrapers may scrape the symbol, as both read scrapedSymbols before
\* either adds to it.
\* ------------------------------------------------------------------------

NoItem == <<>>

ManifestOrderReversed(scraper, n) == [i \in 1..n |-> <<scraper, n + 1 - i>>]

\* files.forEach(file => downloadQueue.push({...})): the items a scraper
\* pushes, in the order of the manifest
ManifestOrder(scraper, n) == [i \in 1..n |-> <<scraper, i>>]

OrderInit ==
    /\ oqFiles \in 2..MaxOrderFiles
    /\ oqScraped = <<>>
    /\ oqDownload = <<>>
    /\ oqRetry = <<>>
    /\ oqTimers = {}
    /\ oqHeld = [w \in Downloaders |-> NoItem]
    /\ oqStarts = <<>>
    /\ oqFailed = 0

OrderIdle ==
    /\ oqFiles = 0
    /\ oqScraped = <<>>
    /\ oqDownload = <<>>
    /\ oqRetry = <<>>
    /\ oqTimers = {}
    /\ oqHeld = [w \in Downloaders |-> NoItem]
    /\ oqStarts = <<>>
    /\ oqFailed = 0

\* A scraper pushes the files of the manifest
OqPush(scraper) ==
    /\ oqFiles > 0
    /\ \A i \in DOMAIN oqScraped : oqScraped[i] # scraper
    /\ oqScraped' = Append(oqScraped, scraper)
    /\ oqDownload' = oqDownload \o ManifestOrder(scraper, oqFiles)
    /\ UNCHANGED <<oqFiles, oqRetry, oqTimers, oqHeld, oqStarts, oqFailed>>
    /\ UNCHANGED notOrder

\* A downloader at its loop head takes the next item
OqDequeue(w) ==
    /\ oqHeld[w] = NoItem
    /\ NextQueue(oqRetry, oqDownload) # "none"
    /\ IF NextQueue(oqRetry, oqDownload) = "retryQueue"
       THEN /\ oqHeld' = [oqHeld EXCEPT ![w] = Head(oqRetry)]
            /\ oqStarts' = Append(oqStarts, [item |-> Head(oqRetry), from |-> "retryQueue"])
            /\ oqRetry' = AfterShift(oqRetry)
            /\ UNCHANGED oqDownload
       ELSE /\ oqHeld' = [oqHeld EXCEPT ![w] = Head(oqDownload)]
            /\ oqStarts' = Append(oqStarts, [item |-> Head(oqDownload), from |-> "downloadQueue"])
            /\ oqDownload' = AfterShift(oqDownload)
            /\ UNCHANGED oqRetry
    /\ UNCHANGED <<oqFiles, oqScraped, oqTimers, oqFailed>>
    /\ UNCHANGED notOrder

\* downloadFile returns true
OqDownloadSucceeds(w) ==
    /\ oqHeld[w] # NoItem
    /\ oqHeld' = [oqHeld EXCEPT ![w] = NoItem]
    /\ UNCHANGED <<oqFiles, oqScraped, oqDownload, oqRetry, oqTimers, oqStarts,
                   oqFailed>>
    /\ UNCHANGED notOrder

\* downloadFile throws with retries left: setTimeout(() =>
\* retryQueue.push(file), backoffDelay).  Fewer downloads fail than
\* maxRetries, so every failed item is retried.
OqDownloadFails(w) ==
    /\ oqHeld[w] # NoItem
    /\ oqFailed < MaxOrderFailures
    /\ oqFailed' = oqFailed + 1
    /\ oqTimers' = oqTimers \cup {oqHeld[w]}
    /\ oqHeld' = [oqHeld EXCEPT ![w] = NoItem]
    /\ UNCHANGED <<oqFiles, oqScraped, oqDownload, oqRetry, oqStarts>>
    /\ UNCHANGED notOrder

\* The timer fires: retryQueue.push(file)
OqTimerFires(item) ==
    /\ item \in oqTimers
    /\ oqTimers' = oqTimers \ {item}
    /\ oqRetry' = Append(oqRetry, item)
    /\ UNCHANGED <<oqFiles, oqScraped, oqDownload, oqHeld, oqStarts, oqFailed>>
    /\ UNCHANGED notOrder

OrderNext ==
    \/ \E scraper \in Scrapers : OqPush(scraper)
    \/ \E w \in Downloaders :
          \/ OqDequeue(w)
          \/ OqDownloadSucceeds(w)
          \/ OqDownloadFails(w)
    \/ \E item \in oqTimers : OqTimerFires(item)

\* ------------------------------------------------------------------------
\* The catch block of processFileComplete
\* (src/worker_system_production_adapted.js).  The call is at one of:
\*   "zip", "checksum"        steps 1 and 2, downloadFileWithRetry
\*   "verify", "validate", "extract"   steps 3 to 5
\*   "catch"                  fs.access(zipPath) of the catch block
\*   "unlinkZip"              fs.unlink(zipPath)
\*   "accessChecksum"         fs.access(checksumPath)
\*   "unlinkChecksum"         fs.unlink(checksumPath)
\*   "thrown"                 throw error has reached the caller
\*   "returned"               the result has reached the caller
\* ------------------------------------------------------------------------

DownloadSteps == {"zip", "checksum"}

\* The steps in the order of the try block, and what follows the last
StepAfter(step) ==
    CASE step = "zip" -> "checksum"
      [] step = "checksum" -> "verify"
      [] step = "verify" -> "validate"
      [] step = "validate" -> "extract"
      [] step = "extract" -> "returned"

\* A run finds what an earlier run of the same symbol has left at the two
\* paths: a call that returns leaves both files in place.
CleanInit ==
    /\ cuPc = "zip"
    /\ zipExists \in BOOLEAN
    /\ checksumExists \in BOOLEAN
    /\ unlinkInFlight = {}
    /\ failedAt = "none"
    /\ cuRetryCount = 0

CleanIdle ==
    /\ cuPc = "returned"
    /\ zipExists = FALSE
    /\ checksumExists = FALSE
    /\ unlinkInFlight = {}
    /\ failedAt = "none"
    /\ cuRetryCount = 0

\* The files at the two paths after createWriteStream(filePath) of the step
Opened(step) ==
    /\ zipExists' = (zipExists \/ step = "zip")
    /\ checksumExists' = (checksumExists \/ step = "checksum")

\* downloadFileWithRetry resolves: the file was opened and the response
\* has ended
CuDownloadEnds ==
    /\ cuPc \in DownloadSteps
    /\ Opened(cuPc)
    /\ cuPc' = StepAfter(cuPc)
    /\ cuRetryCount' = 0
    /\ UNCHANGED <<unlinkInFlight, failedAt>>
    /\ UNCHANGED notClean

\* request 'error': the download is called again while retryCount is less
\* than maxRetries, and rejects after that; no file was opened
CuRequestError ==
    /\ cuPc \in DownloadSteps
    /\ IF cuRetryCount < pipeMaxRetries
       THEN /\ cuRetryCount' = cuRetryCount + 1
            /\ UNCHANGED <<cuPc, failedAt>>
       ELSE /\ failedAt' = cuPc
            /\ cuPc' = "catch"
            /\ UNCHANGED cuRetryCount
    /\ UNCHANGED <<zipExists, checksumExists, unlinkInFlight>>
    /\ UNCHANGED notClean

\* downloadFileWithRetry rejects without an unlink: a status other than
\* 200 or a timeout before the response (the file was not opened), or a
\* timeout or a write stream error after it was
CuDownloadRejects(opened) ==
    /\ cuPc \in DownloadSteps
    /\ IF opened THEN Opened(cuPc) ELSE UNCHANGED <<zipExists, checksumExists>>
    /\ failedAt' = cuPc
    /\ cuPc' = "catch"
    /\ UNCHANGED <<unlinkInFlight, cuRetryCount>>
    /\ UNCHANGED notClean

\* response 'error': fileStream.destroy(), unlink(filePath, () => {}) and
\* reject(error), in one turn
CuResponseError ==
    /\ cuPc \in DownloadSteps
    /\ Opened(cuPc)
    /\ unlinkInFlight' = unlinkInFlight \cup {cuPc}
    /\ failedAt' = cuPc
    /\ cuPc' = "catch"
    /\ UNCHANGED cuRetryCount
    /\ UNCHANGED notClean

\* The unlink of a response 'error' handler is done
CuUnlinkCallback(path) ==
    /\ path \in unlinkInFlight
    /\ unlinkInFlight' = unlinkInFlight \ {path}
    /\ zipExists' = (zipExists /\ path # "zip")
    /\ checksumExists' = (checksumExists /\ path # "checksum")
    /\ UNCHANGED <<cuPc, failedAt, cuRetryCount>>
    /\ UNCHANGED notClean

\* One of the steps 3 to 5 reports a failure: throw new Error(...)
CuCheckFails ==
    /\ cuPc \in {"verify", "validate", "extract"}
    /\ failedAt' = cuPc
    /\ cuPc' = "catch"
    /\ UNCHANGED <<zipExists, checksumExists, unlinkInFlight, cuRetryCount>>
    /\ UNCHANGED notClean

\* One of the steps 3 to 5 passes
CuCheckPasses ==
    /\ cuPc \in {"verify", "validate", "extract"}
    /\ cuPc' = StepAfter(cuPc)
    /\ UNCHANGED <<zipExists, checksumExists, unlinkInFlight, failedAt,
                   cuRetryCount>>
    /\ UNCHANGED notClean

\* if (await fs.access(zipPath).then(() => true).catch(() => false))
CuAccessZip ==
    /\ cuPc = "catch"
    /\ cuPc' = IF zipExists THEN "unlinkZip" ELSE "accessChecksum"
    /\ UNCHANGED <<zipExists, checksumExists, unlinkInFlight, failedAt,
                   cuRetryCount>>
    /\ UNCHANGED notClean

\* The position after an fs.unlink of the cleanup that has found no file:
\* it throws, catch (cleanupError) takes it, and throw error follows
AfterFailedUnlink(next) == "thrown"

\* await fs.unlink(zipPath)
CuUnlinkZip ==
    /\ cuPc = "unlinkZip"
    /\ cuPc' = IF zipExists THEN "accessChecksum"
               ELSE AfterFailedUnlink("accessChecksum")
    /\ zipExists' = FALSE
    /\ UNCHANGED <<checksumExists, unlinkInFlight, failedAt, cuRetryCount>>
    /\ UNCHANGED notClean

\* if (await fs.access(checksumPath).then(() => true).catch(() => false))
CuAccessChecksum ==
    /\ cuPc = "accessChecksum"
    /\ cuPc' = IF checksumExists THEN "unlinkChecksum" ELSE "thrown"
    /\ UNCHANGED <<zipExists, checksumExists, unlinkInFlight, failedAt,
                   cuRetryCount>>
    /\ UNCHANGED notClean

\* await fs.unlink(checksumPath), then throw error
CuUnlinkChecksum ==
    /\ cuPc = "unlinkChecksum"
    /\ cuPc' = "thrown"
    /\ checksumExists' = FALSE
    /\ UNCHANGED <<zipExists, unlinkInFlight, failedAt, cuRetryCount>>
    /\ UNCHANGED notClean

CleanNext ==
    \/ CuDownloadEnds
    \/ CuRequestError
    \/ \E opened \in BOOLEAN : CuDownloadRejects(opened)
    \/ CuResponseError
    \/ \E path \in DownloadSteps : CuUnlinkCallback(path)
    \/ CuCheckFails
    \/ CuCheckPasses
    \/ CuAccessZip
    \/ CuUnlinkZip
    \/ CuAccessChecksum
    \/ CuUnlinkChecksum

\* ------------------------------------------------------------------------
\* The batch driver (src/unnamed/part_001; src/unnamed/part_003 and
\* src/batch_processor_production.js differ in the worker script and in
\* the length of the timeout only).  A worker process is "none" before its
\* spawn, "running", "exited" (with any code), or "nospawn" when the spawn
\* has failed.
\* ------------------------------------------------------------------------

\* symbols.json of the batch driver
batchList == [i \in 1..MaxBatchSymbols |-> i]

\* The command line arguments: <<n>> for a number, <<>> for none
BatchArgs == {<<>>} \cup {<<n>> : n \in 0..MaxBatchSymbols}

\* parseInt(process.argv[k]) || fallback
ParseIntOr(arg, fallback) ==
    IF arg = <<>> THEN fallback
    ELSE IF arg[1] = 0 THEN fallback
    ELSE arg[1]

\* symbols.slice(startIndex, startIndex + count)
Slice(list, startIndex, count) ==
    SubSeq(list, startIndex + 1, Min(startIndex + count, Len(list)))

BatchInit ==
    /\ \E startArg \in BatchArgs, countArg \in BatchArgs :
          batchSymbols = Slice(batchList, ParseIntOr(startArg, 0),
                               ParseIntOr(countArg, defaultCount))
    /\ bPc = "loop"
    /\ bIndex = 1
    /\ bWorker = [i \in DOMAIN batchSymbols |-> "none"]
    /\ bTimers = {}
    /\ bSpawned = <<>>

BatchIdle ==
    /\ batchSymbols = <<>>
    /\ bPc = "done"
    /\ bIndex = 1
    /\ bWorker = <<>>
    /\ bTimers = {}
    /\ bSpawned = <<>>

\* The for loop calls processSymbol: spawn, the handlers and the timeout
\* are set, and main awaits the promise.  After the last symbol main ends.
BatchSpawn ==
    /\ bPc = "loop"
    /\ IF bIndex > Len(batchSymbols)
       THEN /\ bPc' = "done"
            /\ UNCHANGED <<bWorker, bTimers, bSpawned>>
       ELSE /\ bWorker' = [bWorker EXCEPT ![bIndex] = "running"]
            /\ bTimers' = bTimers \cup {bIndex}
            /\ bSpawned' = Append(bSpawned, batchSymbols[bIndex])
            /\ bPc' = "await"
    /\ UNCHANGED <<batchSymbols, bIndex>>
    /\ UNCHANGED notBatch

\* The promise of processSymbol(batchSymbols[i]) settles: when main awaits
\* it, the loop goes on with the next symbol (after a reject, through the
\* catch block of the loop); a promise that has settled before stays as
\* it is.
Settles(i) ==
    IF bPc = "await" /\ bIndex = i
    THEN bPc' = "loop" /\ bIndex' = bIndex + 1
    ELSE UNCHANGED <<bPc, bIndex>>

\* worker 'close' with any exit code: resolve()
WorkerCloses(i) ==
    /\ bWorker[i] = "running"
    /\ bWorker' = [bWorker EXCEPT ![i] = "exited"]
    /\ Settles(i)
    /\ UNCHANGED <<batchSymbols, bTimers, bSpawned>>
    /\ UNCHANGED notBatch

\* worker 'error', the process could not be spawned: reject(error)
WorkerSpawnError(i) ==
    /\ bWorker[i] = "running"
    /\ bPc = "await" /\ bIndex = i
    /\ bWorker' = [bWorker EXCEPT ![i] = "nospawn"]
    /\ Settles(i)
    /\ UNCHANGED <<batchSymbols, bTimers, bSpawned>>
    /\ UNCHANGED notBatch

\* The timeout callback: worker.kill('SIGTERM') and resolve().  The signal
\* is sent; the process exits later, with its 'close'.
WorkerTimeout(i) ==
    /\ i \in bTimers
    /\ bTimers' = bTimers \ {i}
    /\ Settles(i)
    /\ UNCHANGED <<batchSymbols, bWorker, bSpawned>>
    /\ UNCHANGED notBatch

BatchNext ==
    \/ BatchSpawn
    \/ \E i \in DOMAIN batchSymbols :
          \/ WorkerCloses(i)
          \/ WorkerSpawnError(i)
          \/ WorkerTimeout(i)

vars == <<poolVars, pipeVars, ghVars, xferVars, discVars, backoffVars, lifeVars, againVars, fetchVars, healthVars, slotVars, orderVars, cleanVars, batchVars>>

\* The production worker system
Init == PoolInit /\ PipeIdle /\ GhIdle /\ XferIdle /\ DiscIdle /\ BackoffIdle /\ LifeIdle /\ AgainIdle /\ FetchIdle /\ HealthIdle /\ SlotIdle /\ OrderIdle /\ CleanIdle /\ BatchIdle

Next == PoolNext

Spec == Init /\ [][Next]_vars

\* The same with the scheduling of the event loop: a downloader whose
\* delay has ended and that finds an item takes it, a transfer settles, the
\* awaited log lines of a catch block are written, and a timer that was
\* set fires.
Fairness ==
    /\ \A w \in Downloaders :
          /\ WF_vars(Dequeue(w))
          /\ WF_vars(DownloadSucceeds(w)
                     \/ \E error \in DownloadErrors : DownloadFails(w, error))
          /\ WF_vars(ScheduleRetry(w))
          /\ WF_vars(RecordFailure(w))
    /\ \A id \in 1..MaxItems : WF_vars(TimerFires(id))

SpecLive == Init /\ [][Next]_vars /\ Fairness

\* Spec with the scheduling of the scraper workers: readFile resolves,
\* scrapeSymbolFiles returns or throws, the awaited log line is written
\* and the awaited delay ends.
ScraperFairness ==
    \A w \in Scrapers :
        /\ WF_vars(ScraperPick(w))
        /\ WF_vars(ScrapeReturns(w) \/ ScrapeThrows(w))
        /\ WF_vars(ScraperRecord(w))
        /\ WF_vars(ScraperWakes(w))

SpecScrape == Init /\ [][Next]_vars /\ ScraperFairness

\* The sequential pipeline: runWorker on the manifest of one symbol
InitPipe == PipeInit /\ PoolIdle /\ GhIdle /\ XferIdle /\ DiscIdle /\ BackoffIdle /\ LifeIdle /\ AgainIdle /\ FetchIdle /\ HealthIdle /\ SlotIdle /\ OrderIdle /\ CleanIdle /\ BatchIdle

SpecPipe == InitPipe /\ [][PipeNext]_vars

\* The checks of processFileComplete on the files found on disk
InitVerify == VerifyInit /\ PoolIdle /\ GhIdle /\ XferIdle /\ DiscIdle /\ BackoffIdle /\ LifeIdle /\ AgainIdle /\ FetchIdle /\ HealthIdle /\ SlotIdle /\ OrderIdle /\ CleanIdle /\ BatchIdle

NextVerify == PipeVerify

SpecVerify == InitVerify /\ [][NextVerify]_vars

\* The concurrent download pool: runWorker of github_actions_worker.js
InitGh == GhInit /\ PoolIdle /\ PipeIdle /\ XferIdle /\ DiscIdle /\ BackoffIdle /\ LifeIdle /\ AgainIdle /\ FetchIdle /\ HealthIdle /\ SlotIdle /\ OrderIdle /\ CleanIdle /\ BatchIdle

SpecGh == InitGh /\ [][GhNext]_vars

\* One transfer, in each of the three implementations
InitXfer == XferInit /\ PoolIdle /\ PipeIdle /\ GhIdle /\ DiscIdle /\ BackoffIdle /\ LifeIdle /\ AgainIdle /\ FetchIdle /\ HealthIdle /\ SlotIdle /\ OrderIdle /\ CleanIdle /\ BatchIdle

SpecXfer == InitXfer /\ [][XferNext]_vars

\* Paged discovery, in both implementations
InitDisc == DiscInit /\ PoolIdle /\ PipeIdle /\ GhIdle /\ XferIdle /\ BackoffIdle /\ LifeIdle /\ AgainIdle /\ FetchIdle /\ HealthIdle /\ SlotIdle /\ OrderIdle /\ CleanIdle /\ BatchIdle

SpecDisc == InitDisc /\ [][DiscNext]_vars

\* Discovery against a server that may answer an empty truncated page,
\* where every listing request is answered or fails
SpecPages == InitDisc /\ [][PagesNext]_vars /\ WF_vars(PagesNext)

\* The retries of one item, with a clock
InitBackoff == BackoffInit /\ PoolIdle /\ PipeIdle /\ GhIdle /\ XferIdle /\ DiscIdle /\ LifeIdle /\ AgainIdle /\ FetchIdle /\ HealthIdle /\ SlotIdle /\ OrderIdle /\ CleanIdle /\ BatchIdle

SpecBackoff == InitBackoff /\ [][BackoffNext]_vars

\* The production worker system with its signal handler, its checkpoint and its next run
InitLife == PoolInit /\ LifeInit /\ PipeIdle /\ GhIdle /\ XferIdle /\ DiscIdle /\ BackoffIdle /\ AgainIdle /\ FetchIdle /\ HealthIdle /\ SlotIdle /\ OrderIdle /\ CleanIdle /\ BatchIdle

SpecLife == InitLife /\ [][LifeNext]_vars

\* The same with the scheduling of the workers of the running process and
\* of its timers
LifeFairness ==
    /\ \A w \in Scrapers :
          WF_vars(procPc = "up" /\ (ScraperPick(w) \/ ScrapeReturns(w)
                                    \/ ScrapeThrows(w) \/ ScraperRecord(w)
                                    \/ ScraperWakes(w)))
    /\ \A w \in Downloaders :
          WF_vars(procPc = "up" /\ (Dequeue(w) \/ DownloadSucceeds(w)
                                    \/ ScheduleRetry(w)))
    /\ \A id \in 1..MaxItems : WF_vars(procPc = "up" /\ TimerFires(id))

SpecResume == InitLife /\ [][LifeNext]_vars /\ LifeFairness

\* Discovery run more than once against one unchanged listing
InitAgain == AgainInit /\ PoolIdle /\ PipeIdle /\ GhIdle /\ XferIdle /\ DiscIdle /\ BackoffIdle /\ LifeIdle /\ FetchIdle /\ HealthIdle /\ SlotIdle /\ OrderIdle /\ CleanIdle /\ BatchIdle

SpecAgain == InitAgain /\ [][AgainNext]_vars

\* One listing request with its retries, in the two implementations
InitFetch == FetchInit /\ PoolIdle /\ PipeIdle /\ GhIdle /\ XferIdle /\ DiscIdle /\ BackoffIdle /\ LifeIdle /\ AgainIdle /\ HealthIdle /\ SlotIdle /\ OrderIdle /\ CleanIdle /\ BatchIdle

SpecFetch == InitFetch /\ [][FetchNext]_vars

\* One downloader worker and its count of consecutive failures
InitHealth == HealthInit /\ PoolIdle /\ PipeIdle /\ GhIdle /\ XferIdle /\ DiscIdle /\ BackoffIdle /\ LifeIdle /\ AgainIdle /\ FetchIdle /\ SlotIdle /\ OrderIdle /\ CleanIdle /\ BatchIdle

SpecHealth == InitHealth /\ [][HealthNext]_vars

\* The size of activeDownloads for manifests of up to MaxManyFiles files
InitSlot == SlotInit /\ PoolIdle /\ PipeIdle /\ GhIdle /\ XferIdle /\ DiscIdle /\ BackoffIdle /\ LifeIdle /\ AgainIdle /\ FetchIdle /\ HealthIdle /\ OrderIdle /\ CleanIdle /\ BatchIdle

SpecSlot == InitSlot /\ [][SlotNext]_vars

\* The order of the files of one symbol through the queues
InitOrder == OrderInit /\ PoolIdle /\ PipeIdle /\ GhIdle /\ XferIdle /\ DiscIdle /\ BackoffIdle /\ LifeIdle /\ AgainIdle /\ FetchIdle /\ HealthIdle /\ SlotIdle /\ CleanIdle /\ BatchIdle

SpecOrder == InitOrder /\ [][OrderNext]_vars

\* One call of processFileComplete with its catch block
InitClean == CleanInit /\ PoolIdle /\ PipeIdle /\ GhIdle /\ XferIdle /\ DiscIdle /\ BackoffIdle /\ LifeIdle /\ AgainIdle /\ FetchIdle /\ HealthIdle /\ SlotIdle /\ OrderIdle /\ BatchIdle

SpecClean == InitClean /\ [][CleanNext]_vars

\* The batch driver on a slice of up to MaxBatchSymbols symbols
InitBatch == BatchInit /\ PoolIdle /\ PipeIdle /\ GhIdle /\ XferIdle /\ DiscIdle /\ BackoffIdle /\ LifeIdle /\ AgainIdle /\ FetchIdle /\ HealthIdle /\ SlotIdle /\ OrderIdle /\ CleanIdle

SpecBatch == InitBatch /\ [][BatchNext]_vars

\* ------------------------------------------------------------------------
\* Properties of the production worker system
\* ------------------------------------------------------------------------

Range(seq) == {seq[i] : i \in DOMAIN seq}

\* The work item is in one of the queues or waits for its backoff timer
Scheduled(id) ==
    id \in Range(downloadQueue) \cup Range(retryQueue) \cup timers

\* Some downloader holds the work item
Held(id) == \E w \in Downloaders : Holding(w) /\ dFile[w] = id

\* The same two, in the state a step leads to
ScheduledNext(id) ==
    id \in Range(downloadQueue') \cup Range(retryQueue') \cup timers'

HeldNext(id) ==
    \E w \in Downloaders : dPc'[w] \in {"downloading", "failed"} /\ dFile'[w] = id

\* The downloader takes a step out of the given position
Leaves(w, pc) == dPc[w] = pc /\ dPc'[w] # pc

\* C1: under every interleaving of the downloader workers, an item taken
\* from retryQueue or downloadQueue is held by one worker only: no two
\* workers hold the same work item, and a held item is in no queue.
C1_DequeuedByOneWorker ==
    /\ \A w1, w2 \in Downloaders :
          (w1 # w2 /\ Holding(w1) /\ Holding(w2)) => dFile[w1] # dFile[w2]
    /\ \A w \in Downloaders : Holding(w) => ~Scheduled(dFile[w])

\* Both workers hold an item at the same time, one of them a retried item
C1_Witness ==
    /\ \A w \in Downloaders : Holding(w)
    /\ \E w \in Downloaders : items[dFile[w]].retries > 0

\* The item has failed maxRetries times and its last failure is handled
PermanentlyFailed(id) == items[id].retries >= maxRetries /\ ~Held(id)

\* C2: an item whose download fails on every attempt is attempted exactly
\* maxRetries times; it is then recorded in failedDownloads with the error
\* of its last attempt, and from then on it is in no queue, waits for no
\* timer and is held by no worker.
C2_PermanentFailure ==
    /\ [](\A id \in DOMAIN items :
            /\ items[id].attempts <= maxRetries
            /\ PermanentlyFailed(id) =>
                  /\ items[id].attempts = maxRetries
                  /\ items[id].retries = maxRetries
                  /\ ~Scheduled(id))
    /\ [][\A w \in Downloaders :
            (Leaves(w, "failed") /\ items[dFile[w]].retries >= maxRetries) =>
                /\ FileUrl(dFile[w]) \in DOMAIN failedDownloads'
                /\ failedDownloads'[FileUrl(dFile[w])] =
                      [retries |-> maxRetries, lastError |-> dErr[w]]
                /\ ~ScheduledNext(dFile[w])
                /\ ~HeldNext(dFile[w])]_vars

\* An item has failed for good and is recorded with an error
C2_Witness ==
    \E id \in DOMAIN items :
        /\ PermanentlyFailed(id)
        /\ FileUrl(id) \in DOMAIN failedDownloads
        /\ failedDownloads[FileUrl(id)].lastError \in DownloadErrors

\* C3 as stated: when the download of an item succeeds on attempt k, after
\* k - 1 failures, the item is recorded in downloadedFiles and not in
\* failedDownloads, and its counter equals k.
C3_AttemptCounterIsK ==
    [][\A w \in Downloaders :
         (Leaves(w, "downloading") /\ dPc'[w] = "idle") =>
             /\ FileKey(dFile[w]) \in downloadedFiles'
             /\ FileUrl(dFile[w]) \notin DOMAIN failedDownloads'
             /\ items'[dFile[w]].retries = items[dFile[w]].attempts]_vars

\* C3, amended: when the download of an item succeeds on attempt k, after
\* k - 1 failures, the item is recorded in downloadedFiles and not in
\* failedDownloads, and its counter (file.retries, which starts at 0 and
\* counts the failed attempts) equals k - 1.
C3_RetriesIsKMinusOne ==
    [][\A w \in Downloaders :
         (Leaves(w, "downloading") /\ dPc'[w] = "idle") =>
             /\ FileKey(dFile[w]) \in downloadedFiles'
             /\ FileUrl(dFile[w]) \notin DOMAIN failedDownloads'
             /\ items'[dFile[w]].retries = items[dFile[w]].attempts - 1]_vars

\* An item has succeeded on its last allowed attempt, after maxRetries - 1
\* failures
C3_Witness ==
    \E id \in DOMAIN items :
        /\ items[id].attempts = maxRetries
        /\ items[id].retries = maxRetries - 1
        /\ ~Held(id)
        /\ FileKey(id) \in downloadedFiles

\* ------------------------------------------------------------------------
\* Properties of the sequential pipeline
\* ------------------------------------------------------------------------

IsPrefix(s, t) == Len(s) <= Len(t) /\ s = SubSeq(t, 1, Len(s))

\* C4: runWorker calls processFileComplete once for every file of the
\* manifest, in manifest order, whatever happened to the files before: no
\* failure of a file ends the run, and at the end successCount + errorCount
\* is the length of the manifest.
C4_EveryFileProcessedOnce ==
    /\ IsPrefix(pCalls, pFiles)
    /\ pPc \in {"zip", "sum", "verify"} => Len(pCalls) = pIdx
    /\ pPc = "failed" => pCalls = <<>>
    /\ pPc = "done" =>
          /\ pCalls = pFiles
          /\ successCount + errorCount = Len(pFiles)

\* The run is over, the manifest had several files and files have failed
C4_Witness ==
    /\ pPc = "done"
    /\ Len(pFiles) >= 2
    /\ errorCount >= 1
    /\ pCalls = pFiles

\* The host serves the archive and its sidecar, the first token of the
\* sidecar is the digest of the archive, and the archive holds a valid CSV
ServedWell(k) ==
    /\ k.zipStatus = 200 /\ k.sumStatus = 200 /\ ~k.flaky
    /\ k.sum.tokens # <<>>
    /\ LowerToken(k.sum.tokens[1]) = Md5Hex(k.zip)
    /\ validateZipFile(k.zip).valid

\* C7: on a host that serves every archive of the manifest with a matching
\* sidecar checksum and a valid CSV, the run over N files ends with N
\* files processed successfully and 0 errors.
C7_AllServedWellAllSucceed ==
    (pPc = "done" /\ \A f \in DOMAIN server : ServedWell(server[f])) =>
        /\ successCount = Len(pFiles)
        /\ errorCount = 0

\* The digest of the archive on disk is not the digest its sidecar names
DigestDiffers(zipData, sumData) ==
    \/ sumData.tokens = <<>>
    \/ LowerToken(sumData.tokens[1]) # Md5Hex(zipData)

\* processFileComplete has run its checks on two files it found on disk
Checked == pResult.file # NoFile /\ pResult.zip # Absent /\ pResult.sum # Absent

\* C9: processFileComplete never reports success for a file whose digest
\* differs from the digest in its sidecar: the file is rejected with a
\* checksum error, also when the archive and its CSV are valid.
C9_MismatchRejected ==
    (Checked /\ DigestDiffers(pResult.zip, pResult.sum)) =>
        /\ ~pResult.outcome.success
        /\ pResult.outcome.error = "Checksum verification failed"
        /\ successCount = 0

\* A valid archive with a valid CSV was rejected for the digest of another
\* archive in its sidecar
C9_Witness ==
    /\ Checked
    /\ validateZipFile(pResult.zip).valid
    /\ pResult.sum.tokens # <<>>
    /\ pResult.sum.tokens[1].word = "md5"
    /\ DigestDiffers(pResult.zip, pResult.sum)
    /\ pResult.outcome.error = "Checksum verification failed"
    /\ errorCount = 1

CheckOrder == <<"checksum", "archive", "schema", "extract">>

Last(seq) == seq[Len(seq)]

\* C10: the checks of processFileComplete run in the order checksum,
\* archive integrity, schema, extraction and stop at the first failure:
\* the archive is not validated after a failed checksum check, and nothing
\* is extracted after any failed check.
C10_OrderedChecksStopAtFailure ==
    pResult.file # NoFile =>
        LET o == pResult.outcome
            c == verifyChecksum(pResult.zip, pResult.sum)
            z == validateZipFile(pResult.zip)
        IN  /\ o.checks # <<>>
            /\ IsPrefix(o.checks, CheckOrder)
            /\ "archive" \in Range(o.checks) => c.valid
            /\ "extract" \in Range(o.checks) => c.valid /\ z.valid
            /\ o.success => o.checks = CheckOrder
            /\ ~o.success =>
                  /\ Last(o.checks) = "checksum" => ~c.valid
                  /\ Last(o.checks) \in {"archive", "schema"} =>
                        ~z.valid /\ Last(o.checks) = Last(z.checks)
                  /\ Last(o.checks) # "extract"

\* The checksum and the archive were fine, the schema check failed and
\* nothing was extracted
C10_Witness ==
    /\ pResult.file # NoFile
    /\ pResult.outcome.checks = <<"checksum", "archive", "schema">>
    /\ ~pResult.outcome.success
    /\ disk[pResult.file].csv = Absent

\* ------------------------------------------------------------------------
\* Properties of the concurrent download pool
\* ------------------------------------------------------------------------

\* The downloads of the pool that have failed so far
FailedDownloads ==
    {f \in DOMAIN download :
        \/ download[f] = "rejected"
        \/ download[f] = "fulfilled" /\ ghServer[f] = "mkdir"}

\* C5: a failed download (a status other than 200, a request error or a
\* timeout) adds one to workerState.errors and does not abort the run: the
\* remaining files are started and runWorker completes normally.
C5_FailureCountedRunGoesOn ==
    /\ errors = Cardinality(FailedDownloads)
    /\ ghPc \notin {"failed", "crashed"}
    /\ ghPc = "done" => currentIndex = Len(ghServer)

\* ------------------------------------------------------------------------
\* Properties of the transfer
\* ------------------------------------------------------------------------

\* The bytes received so far
ReceivedBytes == Concat(SubSeq(xfBody, 1, received))

\* C8: every chunk received is appended to the local file as it arrives,
\* and when the transfer reports success the local file holds exactly the
\* bytes received and its size is the byte count the transfer reports.
C8_FileHoldsReceivedBytes ==
    /\ xfPc = "streaming" => localFile = ReceivedBytes
    /\ xfPc = "success" =>
          /\ localFile = ReceivedBytes
          /\ Len(localFile) = reportedBytes

\* ------------------------------------------------------------------------
\* Properties of the discovery
\* ------------------------------------------------------------------------

\* The keys of the listing that have two parts, a name and "zip"
ArchiveKeys ==
    LET idx == {i \in DOMAIN listing : Len(listing[i]) = 2}
        nth[k \in 0..Len(listing)] ==
            IF k = 0 THEN <<>>
            ELSE IF k \in idx THEN nth[k - 1] \o <<listing[k]>>
            ELSE nth[k - 1]
    IN nth[Len(listing)]

\* C6: a discovery that returns has made exactly one descriptor for every
\* .zip key of the listing and none for a sidecar key, without duplicates
\* and in the order of the server, whether or not the number of keys is a
\* multiple of the page size.
C6_DiscoveryReturnsEveryArchiveOnce ==
    dsPc = "done" =>
        /\ Len(dsFiles) = Len(ArchiveKeys)
        /\ \A i \in DOMAIN dsFiles : dsFiles[i].url = ArchiveKeys[i]
        /\ \A i, j \in DOMAIN dsFiles : dsFiles[i] = dsFiles[j] => i = j

\* A discovery over more than one page returns, for a listing with a
\* sidecar key and a number of .zip keys that is not a multiple of the
\* page size.
C6_Witness ==
    /\ dsPc = "done"
    /\ page > 1
    /\ pageSize = 2
    /\ Len(ArchiveKeys) = 3
    /\ Len(listing) > 3
    /\ Len(dsFiles) = 3

\* ------------------------------------------------------------------------
\* Properties of the schema validation
\* ------------------------------------------------------------------------

\* processFileComplete has checked the schema of the CSV in the archive
SchemaChecked ==
    pResult.file # NoFile /\ "schema" \in Range(pResult.outcome.checks)

\* The lines of the first entry of an archive that is named as a CSV
CsvLinesOf(zipData) ==
    LET csvs == {i \in DOMAIN zipData.entries : zipData.entries[i].name = "trades.csv"}
        first == CHOOSE i \in csvs : \A j \in csvs : i <= j
    IN  zipData.entries[first].lines

\* The places of the lines that are not empty
NonEmptyLines(lines) == {i \in DOMAIN lines : lines[i] # <<>>}

\* The first line that is not empty names every required column, in any
\* case and any order
HeaderNamesAll(lines) ==
    LET ne == NonEmptyLines(lines)
        header == lines[CHOOSE i \in ne : \A j \in ne : i <= j]
    IN  \A h \in {"trade_id", "trade_time", "price", "size", "side"} :
            \E i \in DOMAIN header : LowerCell(header[i]) = h

\* C11: the schema validation rejects a CSV with fewer than 2 non-empty
\* lines (a header-only CSV) or with a header line that lacks a required
\* column name, and accepts every other CSV with a row count of the
\* number of non-empty lines minus one.
C11_SchemaValidation ==
    SchemaChecked =>
        LET lines == CsvLinesOf(pResult.zip)
            n == Cardinality(NonEmptyLines(lines))
            o == pResult.outcome
        IN  IF n < 2 \/ ~HeaderNamesAll(lines)
            THEN /\ ~o.success
                 /\ o.error = "ZIP validation failed"
                 /\ Last(o.checks) = "schema"
            ELSE /\ o.success
                 /\ o.dataRows = n - 1

\* A CSV with a valid header, an empty line and no data row was rejected
C11_Witness ==
    /\ SchemaChecked
    /\ Len(CsvLinesOf(pResult.zip)) = 2
    /\ Cardinality(NonEmptyLines(CsvLinesOf(pResult.zip))) = 1
    /\ HeaderNamesAll(CsvLinesOf(pResult.zip))
    /\ ~pResult.outcome.success

C13_NoFileAfterFailure ==
    xfPc = "failed" => localFile = NoLocalFile

\* ------------------------------------------------------------------------
\* Properties of the queues of the production worker system
\* ------------------------------------------------------------------------

\* Downloader w takes its next item in this step
Picks(w) == dPc[w] = "idle" /\ dPc'[w] = "downloading"

\* C14: a downloader that picks its next item takes the head of retryQueue
\* whenever retryQueue is not empty, and the head of downloadQueue only
\* when retryQueue is empty.
C14_RetryQueueFirst ==
    [][\A w \in Downloaders :
          Picks(w) =>
             IF retryQueue # <<>>
             THEN /\ dFile'[w] = Head(retryQueue)
                  /\ retryQueue' = Tail(retryQueue)
                  /\ downloadQueue' = downloadQueue
             ELSE /\ downloadQueue # <<>>
                  /\ dFile'[w] = Head(downloadQueue)
                  /\ downloadQueue' = Tail(downloadQueue)
                  /\ retryQueue' = retryQueue]_vars

\* A downloader works on an item that came back through retryQueue while
\* another item waits in downloadQueue
C14_Witness ==
    \E w \in Downloaders :
        /\ dPc[w] = "downloading"
        /\ items[dFile[w]].retries > 0
        /\ downloadQueue # <<>>
        /\ retryQueue = <<>>

\* ------------------------------------------------------------------------
\* Properties of the backoff
\* ------------------------------------------------------------------------

RECURSIVE Doubled(_, _)
Doubled(base, times) == IF times = 0 THEN base ELSE 2 * Doubled(base, times - 1)

\* A retry of the item is scheduled or has entered retryQueue
RetryScheduled == boPc \in {"waiting", "queued"}

\* C15 (as the code has it): after the n-th failed attempt, n below
\* maxRetries, the timer of the item is set to retryDelay * 2^(n-1), the
\* item enters retryQueue only when that delay has passed, and the delay
\* is limited by the number of retries alone: it is at most
\* retryDelay * 2^(maxRetries-2).
C15_BackoffDoubles ==
    RetryScheduled =>
        /\ boRetries >= 1
        /\ boRetries < maxRetries
        /\ boDue - boSetAt = Doubled(retryDelay, boRetries - 1)
        /\ boDue - boSetAt <= Doubled(retryDelay, maxRetries - 2)
        /\ boPc = "queued" => boQueuedAt - boSetAt >= Doubled(retryDelay, boRetries - 1)

\* C15 (as stated): the delay of a scheduled retry never exceeds a
\* configured maximum
C15_BackoffCapped ==
    RetryScheduled => \E cap \in ConfiguredDelayCaps : boDue - boSetAt <= cap

\* The item has entered retryQueue after its third failure, four base
\* delays after the timer was set
C15_Witness ==
    /\ boPc = "queued"
    /\ boRetries = 3
    /\ boQueuedAt - boSetAt = 4 * retryDelay

\* The local file the transfer found counts as downloaded: it has the size
\* of the descriptor (part_002), or it is not empty
\* (github_actions_worker.js)
CountsAsDownloaded ==
    /\ existing # NoLocalFile
    /\ \/ xfImpl = "production" /\ Len(existing) = fileSize
       \/ xfImpl = "github" /\ Len(existing) >= 1

StillInFlight == atSignal \cap InFlight

\* C16: after a termination signal the process does not exit before every
\* transfer that was in flight at the time of the signal has finished or
\* timed out.
C16_NoExitBeforeInFlightFinish ==
    procPc = "exited" => StillInFlight = {}

\* C17: the process never exits on a termination signal with completed
\* sets newer than the last checkpoint: what STATE_FILE holds at the exit
\* is the run state.
C17_ExitsWithCheckpointCurrent ==
    procPc = "exited" => checkpoint = StateData

\* The items a downloader is transferring, as downloadedFiles names them
Transferring ==
    {FileKey(dFile[w]) : w \in {d \in Downloaders : dPc[d] = "downloading"}}

\* C20: when a run starts from an existing checkpoint, no item recorded as
\* completed in that checkpoint is transferred again during the resumed run.
C20_NoRetransferOfCompleted ==
    loaded.saved => Transferring \cap loaded.downloadedFiles = {}

\* A resumed run whose checkpoint records a completed item has gone on with
\* the symbols the checkpoint does not record, and left the completed item
\* alone.
C20_Witness ==
    /\ runs > 1
    /\ loaded.saved
    /\ loaded.downloadedFiles # {}
    /\ scrapedSymbols \ loaded.scrapedSymbols # {}
    /\ downloadedFiles = loaded.downloadedFiles
    /\ downloadQueue = <<>>

\* ------------------------------------------------------------------------
\* Properties of a failed discovery (SpecDisc)
\* ------------------------------------------------------------------------

\* C18: when discovery fails on listing page N (N > 1), the entries
\* gathered from pages 1..N-1 are not discarded: the caller gets them
\* together with the error.
C18_PartialManifestSurfaced ==
    (dsPc = "failed" /\ page > 1) => Surfaced = dsFiles

\* ------------------------------------------------------------------------
\* Properties of discovery run again (SpecAgain)
\* ------------------------------------------------------------------------

\* C19: two runs of discovery for the same symbol against the same
\* unchanged listing return identical manifests: the same descriptors with
\* the same field values, in the same order.
C19_DiscoveryIdempotent ==
    \A i, j \in DOMAIN manifests : manifests[i] = manifests[j]

\* ------------------------------------------------------------------------
\* Properties of the markers of the listing requests (SpecDisc)
\* ------------------------------------------------------------------------

\* The key of the last entry of the page the server answers for a marker
LastKeyOfPage(m) == PageKeys(m)[Len(PageKeys(m))]

\* C21: the first request of a discovery carries no marker; after a page
\* that says more pages follow, the next request carries the NextMarker of
\* the page when it has one, and the key of the last entry of the page
\* when it has none.
C21_MarkerOfNextRequest ==
    [][/\ page' = 1 => marker = NoMarker
       /\ (dsPc = "fetch" /\ dsPc' = "fetch" /\ page' = page + 1) =>
             marker' = IF nextMarker' # NoMarker
                       THEN nextMarker'
                       ELSE LastKeyOfPage(marker)]_vars

\* A second request is about to be sent with the key of the last entry of
\* a page of two keys that had no NextMarker.
C21_Witness ==
    /\ dsPc = "fetch"
    /\ page = 1
    /\ pageSize = 2
    /\ nextMarker = NoMarker
    /\ marker = listing[2]

\* ------------------------------------------------------------------------
\* Properties of the retries of a listing request (SpecFetch)
\* ------------------------------------------------------------------------

\* C22: the listing request fails for good only when the retry budget is
\* used up: it has failed on the first attempt and on all maxRetries
\* retries.
C22_FailsOnlyAfterRetryBudget ==
    fxPc = "rejected" => Len(fxErrors) = FetchRetries(fxImpl) + 1

\* C23: the delay before the retry after failed attempt k (k = 0, 1, ...)
\* is the base delay times 2^k.
C23_ListingBackoffDoubles ==
    \A i \in DOMAIN fxDelays : fxDelays[i] = retryDelay * 2 ^ (i - 1)

\* ------------------------------------------------------------------------
\* Properties of the consecutive failures of a downloader (SpecHealth)
\* ------------------------------------------------------------------------

\* C24: when the count of consecutive failed downloads exceeds
\* maxConsecutiveFailures, the worker waits the widened interval before
\* the next dequeue and logs a CRITICAL line.
C24_WidensWaitAndWarns ==
    (hwPc = "wait" /\ consecutiveFailures > maxConsecutiveFailures) =>
        /\ hwDelay > downloaderDelay
        /\ hwCritical

\* ------------------------------------------------------------------------
\* Properties of the size of activeDownloads (SpecSlot)
\* ------------------------------------------------------------------------

\* C25: the number of downloads in flight, and the size of activeDownloads
\* that holds them, is at most maxConcurrentDownloads in every reachable
\* state.
C25_AtMostMaxConcurrentDownloads ==
    /\ slPending <= ActiveSize
    /\ ActiveSize <= maxConcurrentDownloads

\* maxConcurrentDownloads downloads are in flight and files are left to
\* start: runWorker waits for one of them.
C25_Witness ==
    /\ slPc = "race"
    /\ slPending = maxConcurrentDownloads
    /\ slIndex < slFiles

\* ------------------------------------------------------------------------
\* Properties of the order of the files of a symbol (SpecOrder)
\* ------------------------------------------------------------------------

\* The items the downloaders have taken from downloadQueue, in the order
\* in which they were taken
RECURSIVE FromDownloadQueue(_)
FromDownloadQueue(starts) ==
    IF starts = <<>> THEN <<>>
    ELSE LET rest == FromDownloadQueue(SubSeq(starts, 1, Len(starts) - 1))
             last == starts[Len(starts)]
         IN  IF last.from = "downloadQueue" THEN Append(rest, last.item)
             ELSE rest

\* C26: the files of a symbol are appended to downloadQueue in the order of
\* the manifest and leave it first in, first out: what the downloaders
\* have taken from downloadQueue, followed by what is still in it, is the
\* manifest in its order (once for every scraper that pushed it), so of
\* two files of one push the one discovered first is started first unless
\* the other comes from retryQueue.
C26_ManifestOrderKept ==
    /\ \A i, j \in DOMAIN FromDownloadQueue(oqStarts) :
          (/\ i < j
           /\ FromDownloadQueue(oqStarts)[i][1] = FromDownloadQueue(oqStarts)[j][1])
          => FromDownloadQueue(oqStarts)[i][2] < FromDownloadQueue(oqStarts)[j][2]
    /\ \A i, j \in DOMAIN oqDownload :
          (i < j /\ oqDownload[i][1] = oqDownload[j][1])
          => oqDownload[i][2] < oqDownload[j][2]
    /\ \A i \in DOMAIN FromDownloadQueue(oqStarts) : \A j \in DOMAIN oqDownload :
          FromDownloadQueue(oqStarts)[i][1] = oqDownload[j][1]
          => FromDownloadQueue(oqStarts)[i][2] < oqDownload[j][2]

\* All three files of a manifest have been taken from downloadQueue, and
\* the first of them was taken again from retryQueue after a later file
\* was started.
C26_Witness ==
    /\ oqFiles = 3
    /\ Len(FromDownloadQueue(oqStarts)) >= 3
    /\ \E i, j \in DOMAIN oqStarts :
          /\ i < j
          /\ oqStarts[i].from = "downloadQueue"
          /\ oqStarts[j].from = "retryQueue"
          /\ oqStarts[i].item[1] = oqStarts[j].item[1]
          /\ oqStarts[i].item[2] > oqStarts[j].item[2]

\* ------------------------------------------------------------------------
\* Progress of the work items (SpecLive)
\* ------------------------------------------------------------------------

\* The work item is in no queue, on no timer and with no worker, and
\* either its last attempt succeeded and its file is in downloadedFiles, or
\* it has failed maxRetries times and its file is in failedDownloads (or in
\* downloadedFiles, when another item of the same file has succeeded since
\* and has deleted the record)
Terminal(id) ==
    /\ id \in DOMAIN items
    /\ ~Scheduled(id)
    /\ ~Held(id)
    /\ \/ /\ items[id].attempts > items[id].retries
          /\ FileKey(id) \in downloadedFiles
       \/ /\ items[id].retries >= maxRetries
          /\ \/ FileUrl(id) \in DOMAIN failedDownloads
             \/ FileKey(id) \in downloadedFiles

\* C27: in a run without shutdown, with fair scheduling of the workers and
\* the timers and every transfer settling, every item placed in
\* downloadQueue eventually is recorded as downloaded or as permanently
\* failed.
C27_EveryItemTerminates ==
    []~isShuttingDown =>
        \A id \in 1..MaxItems : [](id \in DOMAIN items => <>Terminal(id))

\* Two items are done: one was downloaded at its first attempt, the other
\* has failed maxRetries times and is recorded as failed.
C27_Witness ==
    \E a, b \in DOMAIN items :
        /\ Terminal(a) /\ Terminal(b)
        /\ items[a].retries = 0
        /\ items[b].retries = maxRetries
        /\ FileUrl(b) \in DOMAIN failedDownloads

\* ------------------------------------------------------------------------
\* Properties of the size checks of a transfer (SpecXfer)
\* ------------------------------------------------------------------------

\* The transfer of part_002 has an expected size
SizeKnown == xfImpl = "production" /\ xfPc # "check" /\ xfPc # "request"
             /\ expectedSize # 0

\* C28: a transfer whose expected size is known does not go on once the
\* bytes written exceed the expected size, and does not end as a success
\* with a file whose size differs from the expected size.
C28_SizeMismatchFails ==
    SizeKnown =>
        /\ xfPc = "streaming" => downloadedBytes <= expectedSize
        /\ xfPc = "success" =>
              /\ downloadedBytes = expectedSize
              /\ Len(localFile) = expectedSize
              /\ localFile # NoLocalFile

\* A transfer has failed at the chunk that took it over its expected size,
\* with chunks of the body still to come.
C28_Witness ==
    /\ SizeKnown
    /\ xfPc = "failed"
    /\ downloadedBytes > expectedSize
    /\ received < Len(xfBody)
    /\ localFile = NoLocalFile

\* The transfer has found a file at the local path whose size is not the
\* size of the descriptor
StaleFile == existing # NoLocalFile /\ Len(existing) # fileSize

\* C29: a transfer that finds an existing local file whose size differs
\* from the expected size of the descriptor does not return the file as
\* it is: it issues a request, and reports success only for what that
\* request has brought.
C29_StaleFileNotReported ==
    StaleFile =>
        /\ xfPc # "skipped"
        /\ xfPc = "success" => requests > 0

\* ------------------------------------------------------------------------
\* The places of a work item (Spec)
\* ------------------------------------------------------------------------

\* How many times the queue holds the work item
Occurrences(q, id) == Cardinality({i \in DOMAIN q : q[i] = id})

\* How many workers hold the work item
Holders(id) == Cardinality({w \in Downloaders : Holding(w) /\ dFile[w] = id})

\* The last attempt of the item returned true and its iteration is over
Succeeded(id) ==
    /\ items[id].attempts > items[id].retries
    /\ ~Held(id)
    /\ FileKey(id) \in downloadedFiles

\* The number of places the work item is in
PlacesOf(id) ==
    Occurrences(downloadQueue, id) + Occurrences(retryQueue, id)
    + Holders(id)
    + (IF id \in timers THEN 1 ELSE 0)
    + (IF Succeeded(id) THEN 1 ELSE 0)
    + (IF PermanentlyFailed(id) THEN 1 ELSE 0)

\* The place of the work item; "none" before the scraper has created it,
\* "lost" when it is nowhere
Place(id) ==
    IF id \notin DOMAIN items THEN "none"
    ELSE IF id \in Range(downloadQueue) THEN "downloadQueue"
    ELSE IF id \in Range(retryQueue) THEN "retryQueue"
    ELSE IF Held(id) THEN "inFlight"
    ELSE IF id \in timers THEN "timer"
    ELSE IF Succeeded(id) THEN "succeeded"
    ELSE IF PermanentlyFailed(id) THEN "failed"
    ELSE "lost"

\* Pending -> InFlight -> Succeeded, InFlight -> Requeued -> Pending,
\* InFlight -> PermanentlyFailed; a new item starts in downloadQueue
Moves ==
    {<<"none", "downloadQueue">>,
     <<"downloadQueue", "inFlight">>, <<"retryQueue", "inFlight">>,
     <<"inFlight", "succeeded">>,
     <<"inFlight", "timer">>, <<"timer", "retryQueue">>,
     <<"inFlight", "failed">>}

\* C30: every work item is at every moment in exactly one place:
\* downloadQueue, retryQueue, held by one worker, on its backoff timer,
\* succeeded or permanently failed; and a step that moves it takes it from
\* a queue to a worker, from a worker to succeeded, to its timer or to
\* permanently failed, or from its timer to retryQueue.
C30_ExactlyOnePlace ==
    /\ [](\A id \in DOMAIN items : PlacesOf(id) = 1)
    /\ [][\A id \in 1..MaxItems :
            Place(id)' # Place(id) => <<Place(id), Place(id)'>> \in Moves]_vars

\* One item waits for its backoff timer while another, which has waited
\* for its own, is back in retryQueue
C30_Witness ==
    \E a, b \in DOMAIN items :
        /\ Place(a) = "timer"
        /\ Place(b) = "retryQueue"
        /\ PlacesOf(a) = 1 /\ PlacesOf(b) = 1

\* ------------------------------------------------------------------------
\* The expected digest of the checksum check (SpecVerify)
\* ------------------------------------------------------------------------

\* The archive and the sidecar of the item are both on disk, and the
\* sidecar holds at least one token
BothOnDisk(i) ==
    /\ disk[i].zip # Absent
    /\ disk[i].sum # Absent
    /\ TrimmedTokens(disk[i].sum) # <<>>

\* C31: verifyChecksum accepts exactly when the first token of the sidecar
\* equals, ignoring case, the hex digest of the archive bytes, whatever
\* tokens follow the first.
C31_FirstTokenDecides ==
    \A i \in DOMAIN disk :
        BothOnDisk(i) =>
            (verifyChecksum(disk[i].zip, disk[i].sum).valid
                <=> LowerToken(TrimmedTokens(disk[i].sum)[1])
                        = LowerToken(Md5Hex(disk[i].zip)))

\* ------------------------------------------------------------------------
\* Concurrent scrapers (Spec)
\* ------------------------------------------------------------------------

\* C32: no two scraper workers work on the same symbol, and no two work
\* items pushed into downloadQueue are of the same symbol and file name.
C32_SymbolScrapedByOneWorker ==
    /\ \A w1, w2 \in Scrapers :
          (w1 # w2 /\ sSym[w1] # NoSymbol) => sSym[w1] # sSym[w2]
    /\ \A a, b \in DOMAIN items : FileKey(a) = FileKey(b) => a = b

\* C33: no file is both in state.downloadedFiles (by symbol and file
\* name) and in state.failedDownloads (by url).
C33_NotDownloadedAndFailed ==
    \A id \in DOMAIN items :
        ~(FileKey(id) \in downloadedFiles /\ FileUrl(id) \in DOMAIN failedDownloads)

\* ------------------------------------------------------------------------
\* Progress of the scrapers (SpecScrape)
\* ------------------------------------------------------------------------

\* The first symbol of symbols.json
FirstSymbol == allSymbols[1]

\* C34: in a run without shutdown in which the first symbol of the list is
\* never scraped, because its discovery fails every time, every other
\* symbol of the list is scraped eventually.
C34_FailingSymbolDoesNotBlock ==
    ([]~isShuttingDown /\ [](FirstSymbol \notin scrapedSymbols)) =>
        \A symbol \in (1..NumSymbols) \ {FirstSymbol} :
            <>(symbol \in scrapedSymbols)

\* ------------------------------------------------------------------------
\* workerState.currentDownloads (SpecGh)
\* ------------------------------------------------------------------------

\* C35: a file whose downloadFile call has not settled (it prepares the
\* directory or its request is under way) is in currentDownloads.
C35_InProgressIsCurrent ==
    \A f \in DOMAIN download :
        download[f] \in {"prepare", "request"} => f \in currentDownloads

\* ------------------------------------------------------------------------
\* The end of the pagination loop (SpecPages)
\* ------------------------------------------------------------------------

\* C36: the turn of the loop on a page it has received leaves the loop
\* exactly when the page is not truncated, or is truncated with neither a
\* NextMarker nor a key; and against a server that answers only keys after
\* the marker, discovery comes to its end.
C36_PaginationEnds ==
    /\ [][(dsPc = "fetch" /\ page' = page + 1 /\ dsPc' # "failed") =>
            (dsPc' = "done" <=>
                (~isTruncated' \/ (nextMarker' = NoMarker /\ keyCount' = 0)))]_vars
    /\ <>(dsPc \in {"done", "failed"})

\* Discovery has ended on the second or a later page, which said it was
\* truncated and held neither a key nor a NextMarker
C36_Witness ==
    /\ dsPc = "done"
    /\ page >= 2
    /\ isTruncated
    /\ keyCount = 0
    /\ nextMarker = NoMarker

\* ------------------------------------------------------------------------
\* The files left by a failed processFileComplete (SpecClean)
\* ------------------------------------------------------------------------

\* C37: when the error of processFileComplete reaches the caller, no file
\* is at zipPath and no file is at checksumPath.
C37_NoFilesWhenErrorSurfaces ==
    cuPc = "thrown" => ~zipExists /\ ~checksumExists

\* ------------------------------------------------------------------------
\* The pending items of a checkpoint (SpecResume)
\* ------------------------------------------------------------------------

\* The files of the symbols a checkpoint records as scraped: a scraper
\* marks a symbol as scraped in the turn in which it queues its files
QueuedIn(saved) ==
    {<<symbol, ListingOf(symbol)[i]>> :
        <<symbol, i>> \in UNION {{symbol} \X DOMAIN ListingOf(symbol) :
                                    symbol \in saved.scrapedSymbols}}

\* The urls of the files a checkpoint records as permanently failed, as
\* file keys
FailedIn(saved) == {<<url[2], url[3]>> : url \in DOMAIN saved.failedDownloads}

\* The files that were queued and neither downloaded nor permanently
\* failed when the checkpoint was written
PendingIn(saved) == (QueuedIn(saved) \ saved.downloadedFiles) \ FailedIn(saved)

\* A work item of the file is in the running process
QueuedAgain(key) == \E id \in DOMAIN items : FileKey(id) = key

\* C38: in a run resumed from a checkpoint, every file that was pending
\* when the checkpoint was written is placed in a download queue again.
C38_PendingItemsQueuedAgain ==
    \A key \in (1..NumSymbols) \X (1..MaxFiles) :
        [](runs > 1 /\ procPc = "up" /\ loaded.saved /\ key \in PendingIn(loaded)
              => <>(procPc = "exited" \/ QueuedAgain(key)))

\* ------------------------------------------------------------------------
\* The end of runWorker (SpecGh)
\* ------------------------------------------------------------------------

\* The promise of downloadFile(f) is fulfilled or rejected
HasSettled(f) == download[f] \in {"fulfilled", "rejected"}

\* C39: when runWorker is over, a download was started for every
\* discovered file, and every started download has settled.
C39_AllStartedAllSettled ==
    ghPc \in {"done", "failed", "crashed"} =>
        /\ currentIndex = Len(ghServer)
        /\ \A f \in DOMAIN download : HasSettled(f)

\* ------------------------------------------------------------------------
\* Properties of the batch driver (SpecBatch)
\* ------------------------------------------------------------------------

\* The worker processes that run
RunningWorkers == {i \in DOMAIN bWorker : bWorker[i] = "running"}

\* C40: the workers are spawned for the symbols of the slice in list
\* order, one each, with every symbol spawned when the batch is over; and
\* at most one worker process runs at a time.
C40_OneWorkerAtATime ==
    /\ bSpawned = SubSeq(batchSymbols, 1, Len(bSpawned))
    /\ bPc = "done" => bSpawned = batchSymbols
    /\ Cardinality(RunningWorkers) <= 1

====
